---- MODULE Spec2Model ----
(***************************************************************************)
(* State-machine model of the command palette store (src/src/types/store.ts)*)
(* together with its persistence helpers (src/src/lib/storage.ts) and the   *)
(* places of the components that drive it.                                  *)
(*                                                                          *)
(* Scheduling follows the JavaScript event loop: a task runs its            *)
(* synchronous body to the end, then the microtask queue is drained in FIFO *)
(* order, and only then does the next task start.  Promise continuations    *)
(* of the async store methods and the deferred notification passes are      *)
(* microtask jobs.  Subscriber callbacks are modelled by their only effect  *)
(* the store can see: they return or they throw.                            *)
(***************************************************************************)
EXTENDS Integers, Sequences, FiniteSets, TLC

\* ------------------------------------------------------------------------
\* Bounds of the model
\* ------------------------------------------------------------------------
MaxBurst == 2        \* synchronous setState calls one task may make
MaxSubs == 2         \* subscriptions created over a run
MaxHistory == 2      \* navigation depth explored
MaxInFlight == 2     \* async store calls suspended at the same time
MaxPad == 2          \* spaces before and after the token of a query
MaxItems == 3        \* items of a list handed to the ranking functions
MaxRows == 2         \* rows of a list handed to the virtual list
MaxResets == 4       \* resets of an error boundary that are followed
MaxNodes == 4        \* nodes of a tree handed to the lookup by id
MaxQueries == 53     \* distinct queries typed one after the other
MaxEstimated == 202  \* rows whose height is estimated one after the other
MaxClock == 2        \* readings of the clock that are told apart
Batch == 100         \* rows estimated between two moves of the clock, until the
                     \* height cache is full

\* ------------------------------------------------------------------------
\* Program constants
\* ------------------------------------------------------------------------
MAX_RECENT_COMMANDS == 10

Null == "null"
Undefined == "undefined"

\* ------------------------------------------------------------------------
\* The command tree (immutable configuration)
\* ------------------------------------------------------------------------
ActionCommand(id, prefixes) ==
    [type |-> "action", id |-> id, name |-> id, prefixes |-> prefixes,
     showSearchInput |-> Undefined, children |-> <<>>]

PortalCommand(id, prefixes, show) ==
    [type |-> "portal", id |-> id, name |-> id, prefixes |-> prefixes,
     showSearchInput |-> show, children |-> <<>>]

CategoryCommand(id, children) ==
    [type |-> "category", id |-> id, name |-> id, prefixes |-> <<>>,
     showSearchInput |-> Undefined, children |-> children]

\* An excerpt of commandPaletteConfig.commands with the nesting of the original.
commands ==
    << PortalCommand("youtube-search", <<"!yt">>, Undefined),
       PortalCommand("calculator", <<>>, "false"),
       ActionCommand("new-tab", <<"!nt">>),
       ActionCommand("copy-url", <<>>),
       CategoryCommand("productivity-suite",
         << CategoryCommand("writing-tools",
              << ActionCommand("google-docs", <<>>),
                 CategoryCommand("publishing-platforms",
                   << ActionCommand("medium", <<>>),
                      ActionCommand("devto", <<>>) >>) >>),
            CategoryCommand("communication-tools",
              << ActionCommand("gmail", <<>>) >>) >>),
       CategoryCommand("developer-tools",
         << PortalCommand("js-evaluator", <<"!js">>, Undefined) >>) >>

\* The null a lookup returns, shaped like a command so it compares with one.
NoCommand ==
    [type |-> "null", id |-> Null, prefixes |-> <<>>,
     showSearchInput |-> Undefined, children |-> <<>>]

\* Variant: the last node of a list is taken whatever its id.
RECURSIVE findCommandById_lastMatchesAny(_, _)
findCommandById_lastMatchesAny(id, items) ==
    IF items = <<>> THEN NoCommand
    ELSE LET item == Head(items) IN
         IF item.id = id \/ Len(items) = 1 THEN item
         ELSE LET found == findCommandById_lastMatchesAny(id, item.children) IN
              IF found # NoCommand THEN found
              ELSE findCommandById_lastMatchesAny(id, Tail(items))

\* findCommandById of selectCommand: pre-order search, null when absent.
RECURSIVE findCommandById(_, _)
findCommandById(id, items) ==
    IF items = <<>> THEN NoCommand
    ELSE LET item == Head(items) IN
         IF item.id = id THEN item
         ELSE LET found == findCommandById(id, item.children) IN
              IF found # NoCommand THEN found
              ELSE findCommandById(id, Tail(items))

\* ------------------------------------------------------------------------
\* Sequence helpers standing for the array methods the store uses
\* ------------------------------------------------------------------------
Range(s) == {s[i] : i \in 1..Len(s)}

Min(a, b) == IF a < b THEN a ELSE b

Max(a, b) == IF a > b THEN a ELSE b

\* Array.prototype.filter(x => x # v)
RECURSIVE Without(_, _)
Without(s, v) ==
    IF s = <<>> THEN <<>>
    ELSE IF Head(s) = v THEN Without(Tail(s), v)
         ELSE <<Head(s)>> \o Without(Tail(s), v)

\* Array.prototype.slice(0, n)
Slice0(s, n) == SubSeq(s, 1, Min(Len(s), n))

\* Array.prototype.slice(0, -1)
DropLast(s) == SubSeq(s, 1, Len(s) - 1)

Last(s) == s[Len(s)]

NoDuplicates(s) == \A i, j \in 1..Len(s) : i # j => s[i] # s[j]

\* Reading an optional field of a state object.
Get(s, f, d) == IF f \in DOMAIN s THEN s[f] ELSE d

\* ------------------------------------------------------------------------
\* State
\* ------------------------------------------------------------------------
VARIABLES
    state,               \* CommandState held by the store closure
    storeConfig,         \* CommandStoreConfig given to createStore
    subscribers,         \* Map id -> SubscriptionMeta, in insertion order
    nextSubscriptionId,  \* counter of createStore
    microtasks,          \* the microtask queue, FIFO
    pending,             \* async calls suspended on an external promise
    storage,             \* chrome.storage.local, by key
    initStatus,          \* where init() is: "idle", "running" or "done"
    task,                \* "running": a task's synchronous body is executing
    burst,               \* setState calls made by the current task's body
    asyncSets,           \* setState calls made by microtasks of the current task
    calls,               \* per callback: invocations since the task began
    nsubs,               \* subscriptions made so far (names the callbacks)
    threw,               \* callbacks that have thrown in some pass
    reinvoked,           \* callbacks invoked by a pass after they had thrown
    pass,                \* record of the latest notification pass
    lost,                \* ids recorded by addRecentCommand and dropped by init
    log,                 \* the latest store operation (and the navigate a goBack undid)
    sel,                 \* per command id: what its latest selectCommand call did
    lastQueryRef,        \* lastQueryRef.current of usePrefixTrigger
    deps,                \* the query the prefix effect last ran with
    effect,              \* record of the latest run of the prefix effect
    fuseModule,          \* module variable of algorithms.ts: Null until imported
    fuseLoadingPromise,  \* module variable of algorithms.ts: Null or the promise's state
    cacheRef,            \* cacheRef.current of useSearch, in insertion order
    asyncCalls,          \* searchItemsAsync calls suspended on loadFuse()
    req,                 \* the ranking requests completed by the latest step
    rank,                \* record of the latest searchWithCommandScore call
    kbd,                 \* record of the latest global key event
    destroyed,           \* the callbacks that were registered when destroy ran
    timing,              \* the callbacks unsubscribed, and those that came or went
                         \* while a notification pass was queued
    virtualList,         \* the useVirtualList hook: props, measurements, scroll
    boundary,            \* the ErrorBoundary component: props and state
    lookup,              \* record of the latest lookup by id in a flattened tree
    heightCache          \* the module's height cache, the clock, the latest estimate

vars == <<state, storeConfig, subscribers, nextSubscriptionId, microtasks,
          pending, storage, initStatus, task, burst, asyncSets, calls, nsubs,
          threw, reinvoked, pass, lost, log, sel, lastQueryRef, deps, effect,
          fuseModule, fuseLoadingPromise, cacheRef, asyncCalls, req, rank, kbd,
          destroyed, timing, virtualList, boundary, lookup, heightCache>>

\* The state of the prefix detector and of the ranking engine.
detectorVars == <<lastQueryRef, deps, effect>>

keyVars == <<kbd>>

searchVars == <<fuseModule, fuseLoadingPromise, cacheRef, asyncCalls, req>>

\* The records of the pure functions and of the components around the store.
uiVars == <<rank>>

lifeVars == <<destroyed, timing>>

componentVars == <<virtualList, boundary, lookup, heightCache>>

Callbacks == 1..MaxSubs

NoPass == [registered |-> <<>>, invoked |-> <<>>, threw |-> {},
           before |-> <<>>, after |-> <<>>, lastWrite |-> <<>>]

\* initialState built by the Command component.
initialState(loop, lib) ==
    [open |-> FALSE,
     activeId |-> Null,
     loop |-> loop,
     view |-> [type |-> "root", query |-> ""],
     history |-> <<>>,
     recentCommands |-> <<>>,
     searchLibrary |-> lib,
     virtualization |-> FALSE]

\* ------------------------------------------------------------------------
\* Jobs and suspended calls
\* ------------------------------------------------------------------------
NoProc == [fn |-> "none", at |-> "none", id |-> Null, onClose |-> FALSE,
           value |-> <<>>]

Proc(fn, at, id, onClose, value) ==
    [fn |-> fn, at |-> at, id |-> id, onClose |-> onClose, value |-> value]

NotifyJob == [kind |-> "notify", ids |-> <<>>, proc |-> NoProc, result |-> "none"]

CleanupJob(ids) ==
    [kind |-> "cleanup", ids |-> ids, proc |-> NoProc, result |-> "none"]

ResumeJob(proc, result) ==
    [kind |-> "resume", ids |-> <<>>, proc |-> proc, result |-> result]

Notifies(q) == Cardinality({i \in 1..Len(q) : q[i].kind = "notify"})

Resumes(q) == Cardinality({i \in 1..Len(q) : q[i].kind = "resume"})

\* ------------------------------------------------------------------------
\* The store's synchronous methods, as functions of the closure
\* st = [state, microtasks]
\* ------------------------------------------------------------------------
Store == [state |-> state, microtasks |-> microtasks]

\* notifySubscribers: every call queues one microtask of its own.
notifySubscribers(q) == Append(q, NotifyJob)

\* setState: the spread always builds a fresh object, so oldState !== state
\* holds on every call and every call notifies.
setState(st, partial) ==
    [state |-> partial @@ st.state,
     microtasks |-> notifySubscribers(st.microtasks)]

\* Variant: the view that is left is not put on the history stack.
navigate_dropsHistory(st, newView) ==
    setState(st, [view |-> newView, history |-> st.state.history])

\* Variant: the new view is pushed instead of the current one.
navigate_pushesNewView(st, newView) ==
    setState(st, [view |-> newView,
                  history |-> Append(st.state.history, newView)])

navigate(st, newView) ==
    LET currentView == st.state.view IN
    setState(st, [view |-> newView,
                  history |-> Append(st.state.history, currentView)])

\* Variant: the flag is written even when there is nothing to go back to.
goBack_flagOnEmpty(st) ==
    LET history == st.state.history IN
    IF Len(history) = 0
    THEN [store |-> setState(st, [lastNavigationWasBack |-> TRUE]), ret |-> FALSE]
    ELSE [store |-> setState(st, [view |-> Last(history),
                                  history |-> DropLast(history),
                                  lastNavigationWasBack |-> TRUE]),
          ret |-> TRUE]

\* Variant: the restored view is left on the history stack.
goBack_keepsHistory(st) ==
    LET history == st.state.history IN
    IF Len(history) = 0
    THEN [store |-> st, ret |-> FALSE]
    ELSE [store |-> setState(st, [view |-> Last(history),
                                  history |-> history,
                                  lastNavigationWasBack |-> TRUE]),
          ret |-> TRUE]

\* goBack returns the closure and the boolean result.
goBack(st) ==
    LET history == st.state.history IN
    IF Len(history) = 0
    THEN [store |-> st, ret |-> FALSE]
    ELSE [store |-> setState(st, [view |-> Last(history),
                                  history |-> DropLast(history),
                                  lastNavigationWasBack |-> TRUE]),
          ret |-> TRUE]

\* Variant: the list is not cut to its capacity.
updatedRecent_noSlice(current, commandId) ==
    <<commandId>> \o Without(current, commandId)

\* Variant: the id is not removed from its old position.
updatedRecent_noFilter(current, commandId) ==
    Slice0(<<commandId>> \o current, MAX_RECENT_COMMANDS)

\* The list addRecentCommand computes.
updatedRecent(current, commandId) ==
    LET withoutThis == Without(current, commandId) IN
    Slice0(<<commandId>> \o withoutThis, MAX_RECENT_COMMANDS)

\* Variant: a portal view also names the portal as its category.
targetView_bothIds(command) ==
    IF command.type = "category"
    THEN [type |-> "category", categoryId |-> command.id, query |-> ""]
    ELSE [type |-> "portal", portalId |-> command.id, categoryId |-> command.id,
          query |-> "", showSearchInput |-> command.showSearchInput]

\* The view selectCommand navigates to for a category or a portal.
targetView(command) ==
    IF command.type = "category"
    THEN [type |-> "category", categoryId |-> command.id, query |-> ""]
    ELSE [type |-> "portal", portalId |-> command.id, query |-> "",
          showSearchInput |-> command.showSearchInput]

\* Variant: the throw is caught around the loop, which ends the pass.
RECURSIVE forEachSubscriber_abortOnThrow(_, _, _)
forEachSubscriber_abortOnThrow(subs, T, acc) ==
    IF subs = <<>> THEN acc
    ELSE LET meta == Head(subs)
             called == [acc EXCEPT !.invoked = Append(@, meta.callback)]
         IN IF meta.callback \in T
            THEN [called EXCEPT !.broken = Append(@, meta.id)]
            ELSE forEachSubscriber_abortOnThrow(Tail(subs), T, called)

\* subscribers.forEach of a notification pass: T is the set of callbacks that
\* throw in this pass; a throw is caught inside the loop body.
RECURSIVE forEachSubscriber(_, _, _)
forEachSubscriber(subs, T, acc) ==
    IF subs = <<>> THEN acc
    ELSE LET meta == Head(subs)
             called == [acc EXCEPT !.invoked = Append(@, meta.callback)]
         IN IF meta.callback \in T
            THEN forEachSubscriber(Tail(subs), T,
                     [called EXCEPT !.broken = Append(@, meta.id)])
            ELSE forEachSubscriber(Tail(subs), T, called)

\* Variant: subscribers.delete leaves the Map as it is.
deleteSubscribers_keepsAll(subs, ids) == subs

\* brokenSubscribers.forEach(id => subscribers.delete(id))
deleteSubscribers(subs, ids) ==
    SelectSeq(subs, LAMBDA meta : meta.id \notin Range(ids))

\* Variant: a pending execute is not awaited.
dispatch_resolvesPending(st, command, onClose, e) ==
    LET awaiting == Proc("selectCommand", "execute", command.id, onClose, <<>>) IN
    IF command.type = "action"
    THEN [store |-> IF e \in {"returns", "pending"}
                    THEN [st EXCEPT !.microtasks =
                              Append(@, ResumeJob(awaiting, "resolved"))]
                    ELSE st,
          suspended |-> <<>>]
    ELSE [store |-> navigate(st, targetView(command)), suspended |-> <<>>]

\* Variant: a throw of execute does not leave the try block.
dispatch_closesOnThrow(st, command, onClose, e) ==
    LET awaiting == Proc("selectCommand", "execute", command.id, onClose, <<>>) IN
    IF command.type = "action"
    THEN [store |-> IF e \in {"returns", "throws"}
                    THEN [st EXCEPT !.microtasks =
                              Append(@, ResumeJob(awaiting, "resolved"))]
                    ELSE st,
          suspended |-> IF e = "pending" THEN <<awaiting>> ELSE <<>>]
    ELSE [store |-> navigate(st, targetView(command)), suspended |-> <<>>]

\* The synchronous tail of selectCommand once the command is recorded: an
\* action is executed (outcome e of calling and awaiting command.execute),
\* a category or portal is navigated to.
dispatch(st, command, onClose, e) ==
    LET awaiting == Proc("selectCommand", "execute", command.id, onClose, <<>>) IN
    IF command.type = "action"
    THEN [store |-> IF e = "returns"
                    THEN [st EXCEPT !.microtasks =
                              Append(@, ResumeJob(awaiting, "resolved"))]
                    ELSE st,
          suspended |-> IF e = "pending" THEN <<awaiting>> ELSE <<>>]
    ELSE [store |-> navigate(st, targetView(command)), suspended |-> <<>>]

\* ------------------------------------------------------------------------
\* Storage (chrome.storage.local behind SimpleStorageManager)
\* ------------------------------------------------------------------------
STORAGE_KEY == "commandPalette_recent"
SEARCH_LIBRARY_KEY == "commandPalette_searchLibrary"

storageGet_ignoresFailure(store, key, defaultValue, ok) ==
    IF key \in DOMAIN store THEN store[key] ELSE defaultValue

\* SimpleStorageManager.get: result[key] ?? defaultValue, the default on failure.
storageGet(store, key, defaultValue, ok) ==
    IF ok /\ key \in DOMAIN store THEN store[key] ELSE defaultValue

\* SimpleStorageManager.set: the write, or a logged warning on failure.
storageSet(store, key, value, ok) ==
    IF ok THEN (key :> value) @@ store ELSE store

\* loadSearchLibrary: only the two known names are accepted.
loadSearchLibrary(store, ok) ==
    LET library == storageGet(store, SEARCH_LIBRARY_KEY, Null, ok) IN
    IF library = "fuse" \/ library = "commandscore" THEN library ELSE Null

loadRecentCommands(store, ok) == storageGet(store, STORAGE_KEY, <<>>, ok)

IsStorageWait(p) == p.at \in {"save", "loadSearchLibrary", "loadRecentCommands"}

\* Requests to the storage area are served in the order they were issued.
FirstStorageWait(i) ==
    /\ IsStorageWait(pending[i])
    /\ \A j \in 1..(i - 1) : ~IsStorageWait(pending[j])

RemoveAt(s, i) == SubSeq(s, 1, i - 1) \o SubSeq(s, i + 1, Len(s))

\* ------------------------------------------------------------------------
\* Bookkeeping shared by the actions
\* ------------------------------------------------------------------------
NoCalls == [c \in Callbacks |-> 0]

\* A call can be made by the running task, or start a new task once the
\* microtask queue has drained.
CanCall ==
    \/ task = "running" /\ burst < MaxBurst
    \/ task = "idle" /\ microtasks = <<>>

CanStartTask == task = "idle" /\ microtasks = <<>>

CanRunMicrotask == task = "idle" /\ microtasks # <<>>

Scheduled(new) == Notifies(new.microtasks) - Notifies(microtasks)

\* The call is part of the synchronous body of the current (or a new) task.
InTaskBody(new) ==
    /\ task' = "running"
    /\ burst' = (IF task = "idle" THEN 0 ELSE burst) + Scheduled(new)
    /\ asyncSets' = IF task = "idle" THEN 0 ELSE asyncSets
    /\ calls' = IF task = "idle" THEN NoCalls ELSE calls

\* The call is the whole synchronous body of a new task (an event handler).
AsTask(new) ==
    /\ task' = "idle"
    /\ burst' = Scheduled(new)
    /\ asyncSets' = 0
    /\ calls' = NoCalls

\* The step is a microtask of the current task.
InMicrotask(new) ==
    /\ task' = task
    /\ burst' = burst
    /\ asyncSets' = asyncSets + Scheduled(new)
    /\ calls' = calls

\* The log keeps the latest operation and, under a goBack, the navigate that
\* came right before it.
Logged(op, arg, new, ret) ==
    log' = <<[op |-> op, arg |-> arg, pre |-> state, post |-> new.state,
              ret |-> ret, sched |-> Scheduled(new)]>>
           \o (IF op = "goBack" /\ log # <<>> /\ log[1].op = "navigate"
               THEN <<log[1]>> ELSE <<>>)

Commit(new) ==
    /\ state' = new.state
    /\ microtasks' = new.microtasks

InFlight ==
    Cardinality({i \in 1..Len(pending) : pending[i].fn # "init"})
    + Cardinality({i \in 1..Len(microtasks) :
                      /\ microtasks[i].kind = "resume"
                      /\ microtasks[i].proc.fn # "init"})

IsNavWait(p) ==
    /\ p.fn = "selectCommand"
    /\ p.at = "save"
    /\ findCommandById(p.id, commands).type # "action"

\* selectCommand calls that will navigate once their save has settled.
NavsInFlight ==
    Cardinality({i \in 1..Len(pending) : IsNavWait(pending[i])})
    + Cardinality({i \in 1..Len(microtasks) :
                      /\ microtasks[i].kind = "resume"
                      /\ IsNavWait(microtasks[i].proc)})

\* ------------------------------------------------------------------------
\* Observation of selectCommand calls
\* ------------------------------------------------------------------------
\* The ids carried by the nodes of a tree.
RECURSIVE CommandIds(_)
CommandIds(items) ==
    IF items = <<>> THEN {}
    ELSE {Head(items).id} \cup CommandIds(Head(items).children)
                          \cup CommandIds(Tail(items))

\* sel is NoObserver in runs that do not watch the selections.
NoObserver == [unobserved |-> TRUE]

\* sel before any call in runs that do.
NoSelections == [id \in {} |-> <<>>]

Snapshot ==
    [state |-> state, storage |-> storage, pending |-> pending,
     microtasks |-> microtasks]

\* A selectCommand call for this id has not finished yet.
Selecting(id) ==
    \/ \E i \in 1..Len(pending) :
          pending[i].fn = "selectCommand" /\ pending[i].id = id
    \/ \E i \in 1..Len(microtasks) :
          /\ microtasks[i].kind = "resume"
          /\ microtasks[i].proc.fn = "selectCommand"
          /\ microtasks[i].proc.id = id

\* What the future returned by command.execute is, given the outcome e of
\* the call.
PhaseOf(e) ==
    CASE e = "returns" -> "resolved"
      [] e = "throws" -> "threw"
      [] e = "pending" -> "pending"

\* A new call of selectCommand(id, onClose) is recorded; for an id no node
\* carries, with the closure before and after the call.
Called(s, id, onClose, before, after) ==
    LET known == id \in CommandIds(commands) IN
    IF s = NoObserver THEN s
    ELSE (id :> [known |-> known,
                 onClose |-> onClose, execs |-> 0, closes |-> 0,
                 phase |-> "none", closedOn |-> "none",
                 pre |-> IF known THEN <<>> ELSE before,
                 post |-> IF known THEN <<>> ELSE after]) @@ s

\* command.execute() was called with outcome e.
Executed(s, id, e) ==
    [s EXCEPT ![id].execs = @ + 1, ![id].phase = PhaseOf(e)]

\* navigate(...) was called: the view and history before and after it.
Navigated(s, id, before, after) ==
    [s EXCEPT ![id].phase = "navigated",
              ![id].pre = [view |-> before.view, history |-> before.history],
              ![id].post = [view |-> after.view, history |-> after.history]]

\* The switch on command.type ran in state `before` and left state `after`.
Dispatched(s, command, e, before, after) ==
    IF s = NoObserver THEN s
    ELSE IF command.type = "action" THEN Executed(s, command.id, e)
    ELSE Navigated(s, command.id, before, after)

\* The future of execute settled.
Settled(s, id, ok) ==
    IF s = NoObserver THEN s
    ELSE [s EXCEPT ![id].phase = IF ok THEN "resolved" ELSE "rejected"]

\* onClose was invoked.
Closed(s, id) ==
    IF s = NoObserver THEN s
    ELSE [s EXCEPT ![id].closes = @ + 1, ![id].closedOn = s[id].phase]

\* ------------------------------------------------------------------------
\* Initial states
\* ------------------------------------------------------------------------
\* The record of the effect's run at mount, which saw the empty query.
NoEffect == [query |-> "", flag |-> FALSE, processed |-> TRUE, fired |-> Null,
             fires |-> 0, same |-> TRUE, wrote |-> {}, fromRoot |-> TRUE]

\* No ranking request has completed yet.
NoRequest == {}

NoRank == [items |-> <<>>, query |-> "", maxResults |-> 0, result |-> <<>>]

\* No key has been pressed yet.
NoKey == [key |-> Null, tagName |-> Null, items |-> <<>>, activeId |-> Null,
          loop |-> FALSE, after |-> Null, wrote |-> FALSE, scheduled |-> 0,
          selected |-> <<>>]

\* No list is rendered, no boundary is mounted, nothing was looked up.
NoList == [op |-> "none"]

NoBoundary == [op |-> "none"]

NoLookup == [id |-> Null]

EmptyStorage == [k \in {} |-> <<>>]

\* A store just built by createStore, nothing called yet.
CreatedStore(configs, stores, observer) ==
    /\ state = initialState(FALSE, "fuse")
    /\ storeConfig \in configs
    /\ subscribers = <<>>
    /\ nextSubscriptionId = 0
    /\ microtasks = <<>>
    /\ pending = <<>>
    /\ storage \in stores
    /\ initStatus = "idle"
    /\ task = "idle"
    /\ burst = 0
    /\ asyncSets = 0
    /\ calls = NoCalls
    /\ nsubs = 0
    /\ threw = {}
    /\ reinvoked = {}
    /\ pass = NoPass
    /\ lost = {}
    /\ log = <<>>
    /\ sel = observer
    /\ lastQueryRef = ""
    /\ deps = ""
    /\ effect = NoEffect
    /\ fuseModule = Null
    /\ fuseLoadingPromise = Null
    /\ cacheRef = <<>>
    /\ asyncCalls = <<>>
    /\ req = NoRequest
    /\ rank = NoRank
    /\ kbd = NoKey
    /\ destroyed = {}
    /\ timing = [unsubscribed |-> {}, early |-> {}, late |-> {}]

\* The same with no component mounted beside the palette.
\* The height cache before the first estimate: getHeightCache creates the
\* one HeightCache of the module, empty, on first use.
NoHeightCache == [cache |-> <<>>, now |-> 0, call |-> [op |-> "none"]]

CreatedWith(configs, stores, observer) ==
    /\ CreatedStore(configs, stores, observer)
    /\ virtualList = NoList
    /\ boundary = NoBoundary
    /\ lookup = NoLookup
    /\ heightCache = NoHeightCache

Created(configs, stores) == CreatedWith(configs, stores, NoObserver)

Init == Created({[enableRecentCommands |-> TRUE]}, {EmptyStorage})

\* ------------------------------------------------------------------------
\* Subscriptions and direct state writes
\* ------------------------------------------------------------------------
\* store.subscribe(callback): the callback is a fresh function.
Subscribe ==
    /\ CanCall
    /\ nsubs < MaxSubs
    /\ subscribers' = Append(subscribers,
                             [id |-> nextSubscriptionId, callback |-> nsubs + 1])
    /\ nextSubscriptionId' = nextSubscriptionId + 1
    /\ nsubs' = nsubs + 1
    /\ InTaskBody(Store)
    /\ timing' = IF Notifies(microtasks) > 0
                 THEN [timing EXCEPT !.late = @ \cup {nsubs + 1}]
                 ELSE timing
    /\ UNCHANGED <<state, storeConfig, microtasks, pending, storage, initStatus,
                   threw, reinvoked, pass, lost, log, destroyed,
                   sel, detectorVars, keyVars, searchVars, uiVars, componentVars>>

\* The function subscribe returned, called for subscription id.
Unsubscribe(id) ==
    /\ CanCall
    /\ \E i \in 1..Len(subscribers) : subscribers[i].id = id
    /\ subscribers' = deleteSubscribers(subscribers, <<id>>)
    /\ InTaskBody(Store)
    /\ LET gone == {subscribers[i].callback :
                       i \in {j \in 1..Len(subscribers) : subscribers[j].id = id}}
       IN timing' = [timing EXCEPT
                        !.unsubscribed = @ \cup gone,
                        !.early = IF Notifies(microtasks) > 0
                                  THEN @ \cup gone ELSE @]
    /\ UNCHANGED <<state, storeConfig, nextSubscriptionId, microtasks, pending,
                   storage, initStatus, nsubs, threw, reinvoked, pass, lost, log,
                   destroyed,
                   sel, detectorVars, keyVars, searchVars, uiVars, componentVars>>

\* store.setState(partial) called by a component.
SetState(partial) ==
    /\ CanCall
    /\ LET new == setState(Store, partial) IN
       /\ Commit(new)
       /\ InTaskBody(new)
       /\ Logged("setState", partial, new, "void")
    /\ UNCHANGED <<storeConfig, subscribers, nextSubscriptionId, pending, storage,
                   initStatus, nsubs, threw, reinvoked, pass, lost,
                   sel, detectorVars, keyVars, searchVars, uiVars, lifeVars, componentVars>>

\* The loop effect of the Command component.
SetLoop(b) == SetState([loop |-> b])

\* handleChange of CommandInput: the query of the current view is replaced.
HandleChange(newValue) ==
    /\ CanStartTask
    /\ state.view.query # newValue
    /\ LET partial == [view |-> [state.view EXCEPT !.query = newValue]]
           new == setState(Store, partial)
       IN /\ Commit(new)
          /\ AsTask(new)
          /\ Logged("setState", partial, new, "void")
    /\ UNCHANGED <<storeConfig, subscribers, nextSubscriptionId, pending, storage,
                   initStatus, nsubs, threw, reinvoked, pass, lost,
                   sel, detectorVars, keyVars, searchVars, uiVars, lifeVars, componentVars>>

\* The task's synchronous body has run to its end.
EndTask ==
    /\ task = "running"
    /\ task' = "idle"
    /\ UNCHANGED <<state, storeConfig, subscribers, nextSubscriptionId, microtasks,
                   pending, storage, initStatus, burst, asyncSets, calls, nsubs,
                   threw, reinvoked, pass, lost, log,
                   sel, detectorVars, keyVars, searchVars, uiVars, lifeVars, componentVars>>

\* ------------------------------------------------------------------------
\* Notification
\* ------------------------------------------------------------------------
CallbacksOf(subs) == [i \in 1..Len(subs) |-> subs[i].callback]

Count(s, v) == Cardinality({i \in 1..Len(s) : s[i] = v})

\* The microtask queued by notifySubscribers: one pass over the subscribers;
\* the subscribers that threw are deleted by a further microtask.
RunNotify(T) ==
    /\ CanRunMicrotask
    /\ Head(microtasks).kind = "notify"
    /\ T \subseteq Range(CallbacksOf(subscribers))
    /\ LET r == forEachSubscriber(subscribers, T,
                                  [invoked |-> <<>>, broken |-> <<>>])
       IN /\ microtasks' = Tail(microtasks)
                           \o (IF Len(r.broken) > 0 THEN <<CleanupJob(r.broken)>>
                               ELSE <<>>)
          /\ calls' = [c \in Callbacks |-> calls[c] + Count(r.invoked, c)]
          /\ reinvoked' = reinvoked \cup (Range(r.invoked) \cap threw)
          /\ threw' = threw \cup T
          /\ pass' = [registered |-> CallbacksOf(subscribers),
                      invoked |-> r.invoked,
                      threw |-> T,
                      before |-> state,
                      after |-> state,
                      lastWrite |-> IF log = <<>> THEN state ELSE log[1].post]
    /\ UNCHANGED <<state, storeConfig, subscribers, nextSubscriptionId, pending,
                   storage, initStatus, task, burst, asyncSets, nsubs, lost, log,
                   sel, detectorVars, keyVars, searchVars, uiVars, lifeVars, componentVars>>

RunCleanup ==
    /\ CanRunMicrotask
    /\ Head(microtasks).kind = "cleanup"
    /\ subscribers' = deleteSubscribers(subscribers, Head(microtasks).ids)
    /\ microtasks' = Tail(microtasks)
    /\ UNCHANGED <<state, storeConfig, nextSubscriptionId, pending, storage,
                   initStatus, task, burst, asyncSets, calls, nsubs, threw,
                   reinvoked, pass, lost, log,
                   sel, detectorVars, keyVars, searchVars, uiVars, lifeVars, componentVars>>

\* ------------------------------------------------------------------------
\* Teardown
\* ------------------------------------------------------------------------
\* The state object passed to createStore.
createdState == initialState(FALSE, "fuse")

\* The private variables of the store that destroy writes.
Closure ==
    [state |-> state, subscribers |-> subscribers,
     nextSubscriptionId |-> nextSubscriptionId]

destroy_keepsSubscribers(st) ==
    [state |-> createdState, subscribers |-> st.subscribers,
     nextSubscriptionId |-> 0]

\* destroy: subscribers.clear(), state = initialState, nextSubscriptionId = 0.
destroy(st) ==
    [state |-> createdState, subscribers |-> <<>>, nextSubscriptionId |-> 0]

\* store.destroy() called by a component; it notifies nobody.
Destroy ==
    /\ CanCall
    /\ LET d == destroy(Closure)
           new == [state |-> d.state, microtasks |-> microtasks]
       IN /\ state' = d.state
          /\ subscribers' = d.subscribers
          /\ nextSubscriptionId' = d.nextSubscriptionId
          /\ InTaskBody(new)
          /\ Logged("destroy", Null, new, "void")
    /\ destroyed' = destroyed \cup Range(CallbacksOf(subscribers))
    /\ UNCHANGED <<storeConfig, microtasks, pending, storage, initStatus, nsubs,
                   threw, reinvoked, pass, lost, timing,
                   sel, detectorVars, keyVars, searchVars, uiVars, componentVars>>

\* ------------------------------------------------------------------------
\* Navigation
\* ------------------------------------------------------------------------
\* store.navigate(newView)
Navigate(newView) ==
    /\ CanStartTask
    /\ Len(state.history) + NavsInFlight < MaxHistory
    /\ LET new == navigate(Store, newView) IN
       /\ Commit(new)
       /\ AsTask(new)
       /\ Logged("navigate", newView, new, "void")
    /\ UNCHANGED <<storeConfig, subscribers, nextSubscriptionId, pending, storage,
                   initStatus, nsubs, threw, reinvoked, pass, lost,
                   sel, detectorVars, keyVars, searchVars, uiVars, lifeVars, componentVars>>

\* store.goBack(), from the back button, the Escape key or a direct call.
GoBack ==
    /\ CanStartTask
    /\ LET r == goBack(Store) IN
       /\ Commit(r.store)
       /\ AsTask(r.store)
       /\ Logged("goBack", "none", r.store, r.ret)
    /\ UNCHANGED <<storeConfig, subscribers, nextSubscriptionId, pending, storage,
                   initStatus, nsubs, threw, reinvoked, pass, lost,
                   sel, detectorVars, keyVars, searchVars, uiVars, lifeVars, componentVars>>

\* The Escape branch of handleGlobalKeyDown while the palette is open: a query
\* is cleared first, then a view other than root is left through goBack, and
\* in the root view the palette is closed, which writes nothing to the store.
HandleEscape ==
    /\ CanStartTask
    /\ LET currentView == state.view
           partial == [view |-> [currentView EXCEPT !.query = ""]]
           new == setState(Store, partial)
           r == goBack(Store)
       IN  IF currentView.query # ""
           THEN /\ Commit(new)
                /\ AsTask(new)
                /\ Logged("setState", partial, new, "void")
           ELSE IF currentView.type # "root"
           THEN /\ Commit(r.store)
                /\ AsTask(r.store)
                /\ Logged("goBack", "none", r.store, r.ret)
           ELSE /\ AsTask(Store)
                /\ UNCHANGED <<state, microtasks, log>>
    /\ UNCHANGED <<storeConfig, subscribers, nextSubscriptionId, pending, storage,
                   initStatus, nsubs, threw, reinvoked, pass, lost,
                   sel, detectorVars, keyVars, searchVars, uiVars, lifeVars, componentVars>>

\* ------------------------------------------------------------------------
\* Recent commands and command selection
\* ------------------------------------------------------------------------
\* addRecentCommand up to its await: the state write, then the save is issued.
AddRecentCommand(commandId) ==
    /\ CanStartTask
    /\ InFlight < MaxInFlight
    /\ LET updated == updatedRecent(state.recentCommands, commandId)
           new == setState(Store, [recentCommands |-> updated])
       IN /\ Commit(new)
          /\ AsTask(new)
          /\ Logged("addRecentCommand", commandId, new, "void")
          /\ pending' = Append(pending,
                 Proc("addRecentCommand", "save", commandId, FALSE, updated))
    /\ UNCHANGED <<storeConfig, subscribers, nextSubscriptionId, storage,
                   initStatus, nsubs, threw, reinvoked, pass, lost,
                   sel, detectorVars, keyVars, searchVars, uiVars, lifeVars, componentVars>>

DispatchOp(command) == IF command.type = "action" THEN "execute" ELSE "navigate"

DispatchArg(command) ==
    IF command.type = "action" THEN command.id ELSE targetView(command)

\* selectCommand up to its first await (or to its end when nothing is awaited).
SelectCommandBody(commandId, onClose, e) ==
    /\ CanStartTask
    /\ UNCHANGED <<storeConfig, subscribers, nextSubscriptionId, storage,
                   initStatus, nsubs, threw, reinvoked, pass, lost, searchVars, uiVars, lifeVars, componentVars>>
    /\ LET command == findCommandById(commandId, commands) IN
       IF command = NoCommand
       THEN /\ e = "returns"
            /\ AsTask(Store)
            /\ UNCHANGED <<state, microtasks, pending, log>>
            /\ sel' = Called(sel, commandId, onClose, Snapshot, Snapshot')
       ELSE IF storeConfig.enableRecentCommands
       THEN /\ e = "returns"
            /\ InFlight < MaxInFlight
            /\ command.type # "action"
                  => Len(state.history) + NavsInFlight < MaxHistory
            /\ LET updated == updatedRecent(state.recentCommands, commandId)
                   new == setState(Store, [recentCommands |-> updated])
               IN /\ Commit(new)
                  /\ AsTask(new)
                  /\ Logged("addRecentCommand", commandId, new, "void")
                  /\ pending' = Append(pending,
                         Proc("selectCommand", "save", commandId, onClose, updated))
            /\ sel' = Called(sel, commandId, onClose, Snapshot, Snapshot')
       ELSE /\ command.type = "action" => InFlight < MaxInFlight
            /\ command.type # "action"
                  => /\ e = "returns"
                     /\ Len(state.history) + NavsInFlight < MaxHistory
            /\ LET d == dispatch(Store, command, onClose, e) IN
               /\ Commit(d.store)
               /\ AsTask(d.store)
               /\ pending' = pending \o d.suspended
               /\ Logged(DispatchOp(command), DispatchArg(command), d.store, "void")
            /\ sel' = Dispatched(Called(sel, commandId, onClose, Snapshot, Snapshot'),
                                 command, e, state, state')

\* store.selectCommand(commandId, onClose) called by a component.
SelectCommand(commandId, onClose, e) ==
    /\ SelectCommandBody(commandId, onClose, e)
    /\ UNCHANGED <<detectorVars, keyVars>>

\* The store as the head microtask sees it once it has been taken off the queue.
StoreAfterHead == [state |-> state, microtasks |-> Tail(microtasks)]

HeadResumes(fn, at) ==
    /\ CanRunMicrotask
    /\ Head(microtasks).kind = "resume"
    /\ Head(microtasks).proc.fn = fn
    /\ Head(microtasks).proc.at = at

\* selectCommand continues after `await addRecentCommand(commandId)`.
ResumeSelect(e) ==
    /\ HeadResumes("selectCommand", "save")
    /\ LET p == Head(microtasks).proc
           command == findCommandById(p.id, commands)
           d == dispatch(StoreAfterHead, command, p.onClose, e)
       IN /\ command.type # "action" => e = "returns"
          /\ Commit(d.store)
          /\ InMicrotask(d.store)
          /\ pending' = pending \o d.suspended
          /\ Logged(DispatchOp(command), DispatchArg(command), d.store, "void")
          /\ sel' = Dispatched(sel, command, e, state, state')
    /\ UNCHANGED <<storeConfig, subscribers, nextSubscriptionId, storage,
                   initStatus, nsubs, threw, reinvoked, pass, lost,
                   detectorVars, keyVars, searchVars, uiVars, lifeVars, componentVars>>

\* A direct addRecentCommand call completes after its save.
ResumeAddRecent ==
    /\ HeadResumes("addRecentCommand", "save")
    /\ microtasks' = Tail(microtasks)
    /\ UNCHANGED <<state, storeConfig, subscribers, nextSubscriptionId, pending,
                   storage, initStatus, task, burst, asyncSets, calls, nsubs,
                   threw, reinvoked, pass, lost, log,
                   sel, detectorVars, keyVars, searchVars, uiVars, lifeVars, componentVars>>

\* selectCommand continues after `await command.execute()`: onClose?.() when
\* the action succeeded, the catch block when it rejected.
ResumeExecuted ==
    /\ HeadResumes("selectCommand", "execute")
    /\ microtasks' = Tail(microtasks)
    /\ LET j == Head(microtasks) IN
       IF j.result = "resolved" /\ j.proc.onClose
       THEN /\ Logged("onClose", j.proc.id, StoreAfterHead, "void")
            /\ sel' = Closed(sel, j.proc.id)
       ELSE UNCHANGED <<log, sel>>
    /\ UNCHANGED <<state, storeConfig, subscribers, nextSubscriptionId, pending,
                   storage, initStatus, task, burst, asyncSets, calls, nsubs,
                   threw, reinvoked, pass, lost, detectorVars, keyVars, searchVars, uiVars, lifeVars, componentVars>>

\* ------------------------------------------------------------------------
\* init
\* ------------------------------------------------------------------------
\* The first render of the Command component: the store is created and
\* init() is called, which issues the read of the search-library preference.
MountInit ==
    /\ CanStartTask
    /\ initStatus = "idle"
    /\ log = <<>>
    /\ initStatus' = "running"
    /\ pending' = Append(pending, Proc("init", "loadSearchLibrary", Null, FALSE, <<>>))
    /\ UNCHANGED <<state, storeConfig, subscribers, nextSubscriptionId, microtasks,
                   storage, task, burst, asyncSets, calls, nsubs, threw,
                   reinvoked, pass, lost, log,
                   sel, detectorVars, keyVars, searchVars, uiVars, lifeVars, componentVars>>

\* init continues after `await loadSearchLibrary()`.
ResumeInitLibrary ==
    /\ HeadResumes("init", "loadSearchLibrary")
    /\ LET savedSearchLibrary == Head(microtasks).result
           searchLibrary == IF savedSearchLibrary # Null THEN savedSearchLibrary
                            ELSE state.searchLibrary
           new == IF searchLibrary # state.searchLibrary
                  THEN setState(StoreAfterHead, [searchLibrary |-> searchLibrary])
                  ELSE StoreAfterHead
       IN /\ Commit(new)
          /\ InMicrotask(new)
          /\ IF searchLibrary # state.searchLibrary
             THEN Logged("init", "searchLibrary", new, "void")
             ELSE UNCHANGED log
    /\ IF storeConfig.enableRecentCommands
       THEN /\ pending' = Append(pending,
                   Proc("init", "loadRecentCommands", Null, FALSE, <<>>))
            /\ UNCHANGED initStatus
       ELSE /\ initStatus' = "done"
            /\ UNCHANGED pending
    /\ UNCHANGED <<storeConfig, subscribers, nextSubscriptionId, storage, nsubs,
                   threw, reinvoked, pass, lost,
                   sel, detectorVars, keyVars, searchVars, uiVars, lifeVars, componentVars>>

\* init continues after `await loadRecentCommands()`.
ResumeInitRecent ==
    /\ HeadResumes("init", "loadRecentCommands")
    /\ LET recentCommands == Head(microtasks).proc.value
           new == setState(StoreAfterHead, [recentCommands |-> recentCommands])
       IN /\ Commit(new)
          /\ InMicrotask(new)
          /\ Logged("init", "recentCommands", new, "void")
          /\ lost' = lost \cup (Range(state.recentCommands) \ Range(recentCommands))
    /\ initStatus' = "done"
    /\ UNCHANGED <<storeConfig, subscribers, nextSubscriptionId, pending, storage,
                   nsubs, threw, reinvoked, pass,
                   sel, detectorVars, keyVars, searchVars, uiVars, lifeVars, componentVars>>

\* ------------------------------------------------------------------------
\* The prefix detector (usePrefixTrigger)
\* ------------------------------------------------------------------------
RECURSIVE Spaces(_)
Spaces(n) == IF n = 0 THEN "" ELSE " " \o Spaces(n - 1)

Pads == {Spaces(n) : n \in 0..MaxPad}

\* The texts without a space that the queries of the model are built from.
Tokens == {"", "!yt", "!nt", "!js", "zz"}

\* The strings the string methods below are defined on.
QueryStrings == {l \o w \o r : l \in Pads, w \in Tokens, r \in Pads}

\* String.prototype.endsWith(' ')
endsWithSpace(q) == \E x \in QueryStrings : q = x \o " "

\* String.prototype.trim(): the text between the leading and trailing spaces.
trim(q) == CHOOSE w \in Tokens : \E l, r \in Pads : q = l \o w \o r

\* Array.prototype.includes
includes(s, v) == \E i \in 1..Len(s) : s[i] = v

\* findCommandForPrefix: pre-order search over commandPaletteConfig.commands,
\* null when no node lists the prefix.
RECURSIVE findCommandForPrefix(_, _)
findCommandForPrefix(prefix, items) ==
    IF items = <<>> THEN NoCommand
    ELSE LET item == Head(items) IN
         IF includes(item.prefixes, prefix) THEN item
         ELSE LET found == findCommandForPrefix(prefix, item.children) IN
              IF found # NoCommand THEN found
              ELSE findCommandForPrefix(prefix, Tail(items))

\* Variant: a query is never taken as already processed.
unchangedQuery_never(query, ref) == FALSE

\* `query === lastQueryRef.current`
unchangedQuery(query, ref) == query = ref

\* The record of a run of the effect: the query and the flag it saw, whether
\* the query was the last processed one, the id it passed to selectCommand
\* (if any), the triggers within the current run of executions on one query,
\* whether it left store and ref as they were, which fields of the state it
\* wrote, and whether it ran in the root view with an empty history.
Ran(query, flag, fired) ==
    [query |-> query,
     flag |-> flag,
     processed |-> query = lastQueryRef,
     fired |-> fired,
     fires |-> (IF query = effect.query THEN effect.fires ELSE 0)
               + (IF fired # Null THEN 1 ELSE 0),
     same |-> Snapshot' = Snapshot /\ lastQueryRef' = lastQueryRef,
     wrote |-> {f \in DOMAIN state' :
                   f \notin DOMAIN state \/ state'[f] # state[f]},
     fromRoot |-> state.view.type = "root" /\ state.history = <<>>]

\* One run of the effect of usePrefixTrigger, for the query of the current
\* view; it runs when the query differs from the one of its previous run or
\* when the caller passed a new onClose.
PrefixEffect(newOnClose, e) ==
    LET query == state.view.query
        flag == Get(state, "lastNavigationWasBack", FALSE)
        prefix == trim(query)
        matchingCommand == findCommandForPrefix(prefix, commands)
        returns ==
            /\ AsTask(Store)
            /\ UNCHANGED <<state, microtasks, pending, log, sel, storeConfig,
                           subscribers, nextSubscriptionId, storage, initStatus,
                           nsubs, threw, reinvoked, pass, lost, searchVars, uiVars, lifeVars, componentVars>>
    IN /\ CanStartTask
       /\ query # deps \/ newOnClose
       /\ deps' = query
       /\ UNCHANGED keyVars
       /\ IF flag
          THEN /\ LET new == setState(Store, [lastNavigationWasBack |-> FALSE])
                  IN /\ Commit(new)
                     /\ AsTask(new)
                     /\ Logged("setState", [lastNavigationWasBack |-> FALSE],
                               new, "void")
               /\ UNCHANGED <<lastQueryRef, pending, sel, storeConfig,
                              subscribers, nextSubscriptionId, storage,
                              initStatus, nsubs, threw, reinvoked, pass, lost,
                              searchVars, uiVars, lifeVars, componentVars>>
               /\ effect' = Ran(query, flag, Null)
          ELSE IF unchangedQuery(query, lastQueryRef)
          THEN /\ returns
               /\ UNCHANGED lastQueryRef
               /\ effect' = Ran(query, flag, Null)
          ELSE /\ lastQueryRef' = query
               /\ IF \/ query = ""
                     \/ ~endsWithSpace(query)
                     \/ prefix = ""
                     \/ matchingCommand = NoCommand
                  THEN /\ returns
                       /\ effect' = Ran(query, flag, Null)
                  ELSE /\ SelectCommandBody(matchingCommand.id, TRUE, e)
                       /\ effect' = Ran(query, flag, matchingCommand.id)

\* ------------------------------------------------------------------------
\* The keyboard controller and the items it moves through
\* ------------------------------------------------------------------------
\* A JavaScript value that an `if` or a `?:` takes for true.
Truthy(v) == v \notin {Null, Undefined, ""}

\* Variant: the activate key is not a navigation key.
isNavigationKey_arrowsOnly(key) == key \in {"ArrowUp", "ArrowDown"}

isNavigationKey(key) == key \in {"ArrowUp", "ArrowDown", "Enter"}

\* items.findIndex(item => item.id === id): the index from 0, or -1.
findIndex(items, id) ==
    IF \E i \in DOMAIN items : items[i].id = id
    THEN (CHOOSE i \in DOMAIN items :
              /\ items[i].id = id
              /\ \A j \in 1..(i - 1) : items[j].id # id) - 1
    ELSE -1

\* Variant: the end of the list wraps whatever loop says.
calculateNextIndex_alwaysWraps(currentIndex, key, itemsLength, loop) ==
    IF key = "ArrowDown"
    THEN IF currentIndex < itemsLength - 1 THEN currentIndex + 1 ELSE 0
    ELSE IF currentIndex > 0 THEN currentIndex - 1 ELSE itemsLength - 1

calculateNextIndex(currentIndex, key, itemsLength, loop) ==
    IF key = "ArrowDown"
    THEN IF currentIndex < itemsLength - 1 THEN currentIndex + 1
         ELSE IF loop THEN 0 ELSE currentIndex
    ELSE IF currentIndex > 0 THEN currentIndex - 1
         ELSE IF loop THEN itemsLength - 1 ELSE currentIndex

\* The record of a key event: the list, the highlight and loop it found, the
\* highlight it left, whether it wrote the state, the notifications it
\* scheduled and the ids it passed to selectCommand.
Pressed(key, tagName, selected) ==
    [key |-> key, tagName |-> tagName,
     items |-> Get(state, "items", <<>>), activeId |-> state.activeId,
     loop |-> state.loop, after |-> state'.activeId,
     wrote |-> state' # state,
     scheduled |-> Notifies(microtasks') - Notifies(microtasks),
     selected |-> selected]

\* handleGlobalKeyDown: one keydown event on the document.
HandleGlobalKeyDown(key, tagName, e) ==
    LET items == Get(state, "items", <<>>)
        currentIndex == IF Truthy(state.activeId)
                        THEN findIndex(items, state.activeId) ELSE -1
        newIndex == calculateNextIndex(currentIndex, key, Len(items), state.loop)
        partial == [activeId |-> items[newIndex + 1].id,
                    scrollTrigger |-> "keyboard",
                    keyboardNavigationActive |-> TRUE,
                    navigationDirection |->
                        IF key = "ArrowDown" THEN "down" ELSE "up"]
        returns ==
            /\ AsTask(Store)
            /\ UNCHANGED <<state, microtasks, pending, log, sel, storeConfig,
                           subscribers, nextSubscriptionId, storage, initStatus,
                           nsubs, threw, reinvoked, pass, lost, searchVars, uiVars, lifeVars, componentVars>>
            /\ kbd' = Pressed(key, tagName, <<>>)
    IN /\ CanStartTask
       /\ UNCHANGED detectorVars
       /\ IF \/ tagName \in {"INPUT", "TEXTAREA"}
             \/ ~isNavigationKey(key)
             \/ Len(items) = 0
          THEN returns
          ELSE IF key = "Enter" /\ currentIndex >= 0
          THEN /\ SelectCommandBody(items[currentIndex + 1].id, FALSE, e)
               /\ kbd' = Pressed(key, tagName, <<items[currentIndex + 1].id>>)
          ELSE IF \/ newIndex = currentIndex
                  \/ newIndex < 0
                  \/ newIndex >= Len(items)
          THEN returns
          ELSE /\ LET new == setState(Store, partial)
                  IN /\ Commit(new)
                     /\ AsTask(new)
                     /\ Logged("setState", partial, new, "void")
               /\ UNCHANGED <<pending, sel, storeConfig, subscribers,
                              nextSubscriptionId, storage, initStatus, nsubs,
                              threw, reinvoked, pass, lost, searchVars, uiVars, lifeVars, componentVars>>
               /\ kbd' = Pressed(key, tagName, <<>>)

\* A component or a portal writes the store in a task of its own: the loop
\* effect of Command after a change of its configuration, or a host that
\* clears the highlight through the store's setState.
SetStateTask(partial) ==
    /\ CanStartTask
    /\ LET new == setState(Store, partial)
       IN /\ Commit(new)
          /\ AsTask(new)
          /\ Logged("setState", partial, new, "void")
    /\ UNCHANGED <<pending, sel, storeConfig, subscribers, nextSubscriptionId,
                   storage, initStatus, nsubs, threw, reinvoked, pass, lost,
                   detectorVars, keyVars, searchVars, uiVars, lifeVars, componentVars>>

\* recentCommandObjects of useSearch: the recent ids as commands of the tree.
recentCommandObjects ==
    [i \in DOMAIN state.recentCommands |->
        findCommandById(state.recentCommands[i], commands)]

\* newItems of the updater: ids with their index from 0.
Indexed(ids) == [i \in DOMAIN ids |-> [id |-> ids[i], index |-> i - 1]]

\* The optional categoryCommands argument of the updater.
NoCategoryCommands == [given |-> FALSE, commands |-> <<>>]

\* Variant: the highlight is kept without looking for it in the new items.
finalActiveId_keepsStale(currentState, newItems, newActiveId) ==
    IF /\ Truthy(currentState.activeId)
       /\ Get(currentState, "keyboardNavigationActive", FALSE)
    THEN currentState.activeId ELSE newActiveId

\* finalActiveId of the updater: the current highlight is kept when keyboard
\* navigation is active and the id is still among the new items.
finalActiveId(currentState, newItems, newActiveId) ==
    IF /\ Truthy(currentState.activeId)
       /\ Get(currentState, "keyboardNavigationActive", FALSE)
       /\ \E i \in DOMAIN newItems : newItems[i].id = currentState.activeId
    THEN currentState.activeId ELSE newActiveId

\* The effect of useNavigationItemsUpdater, run with the commands the view
\* shows: the ranked list in the root view, the children in a category.
UpdateNavigationItems(filteredCommands, categoryCommands) ==
    LET viewType == state.view.type
        query == state.view.query
        recent == IF query = ""
                  THEN [i \in DOMAIN recentCommandObjects |->
                           "recent-" \o recentCommandObjects[i].id]
                  ELSE <<>>
        newItems == IF viewType = "root" THEN Indexed(recent \o filteredCommands)
                    ELSE IF viewType = "category" /\ categoryCommands.given
                    THEN Indexed(categoryCommands.commands)
                    ELSE <<>>
        newActiveId == IF Len(newItems) > 0 /\ Truthy(newItems[1].id)
                       THEN newItems[1].id ELSE Null
        itemsChanged == "items" \notin DOMAIN state \/ state.items # newItems
        keyboardNavigationActive ==
            Get(state, "keyboardNavigationActive", FALSE)
        final == finalActiveId(state, newItems, newActiveId)
        activeIdChanged == state.activeId # final
        partial == [items |-> newItems, activeId |-> final,
                    scrollTrigger |->
                        IF keyboardNavigationActive
                        THEN (IF Truthy(Get(state, "scrollTrigger", Undefined))
                              THEN state.scrollTrigger ELSE "keyboard")
                        ELSE "auto"]
    IN /\ CanStartTask
       /\ UNCHANGED <<pending, sel, storeConfig, subscribers, nextSubscriptionId,
                      storage, initStatus, nsubs, threw, reinvoked, pass, lost,
                      detectorVars, keyVars, searchVars, uiVars, lifeVars, componentVars>>
       /\ IF itemsChanged \/ activeIdChanged
          THEN LET new == setState(Store, partial)
               IN /\ Commit(new)
                  /\ AsTask(new)
                  /\ Logged("setState", partial, new, "void")
          ELSE /\ AsTask(Store)
               /\ UNCHANGED <<state, microtasks, log>>

\* ------------------------------------------------------------------------
\* The ranking engine: algorithms.ts and the cache of useSearch
\* ------------------------------------------------------------------------
\* What import('fuse.js') yields once it has loaded.
Fuse == "fuse.js"

\* cacheRef.current may hold this many entries before one is evicted.
CacheLimit == 50

\* The literal 0.1 of searchWithCommandScore, in thousandths like all scores.
MinScore == 100

Algorithms == {"commandscore", "fuse"}

\* Variant: the categories themselves are left out of the list.
RECURSIVE flattenNavigables_leavesOnly(_)
flattenNavigables_leavesOnly(navigables) ==
    IF navigables = <<>> THEN <<>>
    ELSE (IF Head(navigables).children = <<>> THEN <<Head(navigables)>> ELSE <<>>)
         \o flattenNavigables_leavesOnly(Head(navigables).children)
         \o flattenNavigables_leavesOnly(Tail(navigables))

\* flattenNavigables: every item is pushed, then its children are walked.
RECURSIVE flattenNavigables(_)
flattenNavigables(navigables) ==
    IF navigables = <<>> THEN <<>>
    ELSE <<Head(navigables)>>
         \o flattenNavigables(Head(navigables).children)
         \o flattenNavigables(Tail(navigables))

\* Variant: the whole list whatever the limit.
slice_all(s, n) == s

slice(s, n) == SubSeq(s, 1, Min(n, Len(s)))

\* commandScore(string, query) of the command-score package, in
\* thousandths.  The lexical scorer matches the query's characters in order,
\* so a query with a wrong letter scores 0 everywhere.
commandScore(string, query) ==
    CASE query = "do" /\ string = "docs" -> 990
      [] query = "do" /\ string = "google-docs" -> 810
      [] query = "do" /\ string = "devto" -> 320
      [] query = "do" /\ string = "!do" -> 320
      [] query = "do" /\ string = "todo" -> 90
      [] OTHER -> 0

\* item.keywords is optional.
keywordsOf(item) == IF "keywords" \in DOMAIN item THEN item.keywords ELSE <<>>

\* strings.forEach(s => score = Math.max(score, commandScore(s, query)))
RECURSIVE maxScore(_, _, _)
maxScore(score, strings, query) ==
    IF strings = <<>> THEN score
    ELSE maxScore(Max(score, commandScore(Head(strings), query)),
                  Tail(strings), query)

\* The score searchWithCommandScore gives an item: the best of its name, its
\* keywords and, for an action or a portal, its prefixes.
scoreOf(item, query) ==
    LET byName == commandScore(item.name, query)
        byKeywords == maxScore(byName, keywordsOf(item), query)
    IN  IF item.type \in {"action", "portal"}
        THEN maxScore(byKeywords, item.prefixes, query)
        ELSE byKeywords

\* The score fuse.search(query) gives a string (0 is a perfect match), or
\* NoMatch when the string is not within the threshold of 0.4.  The fuzzy
\* scorer tolerates a wrong letter, and scores a match by its place in the
\* string.
NoMatch == -1

fuseScore(string, query) ==
    CASE query = "do" /\ string = "docs" -> 1
      [] query = "do" /\ string = "!do" -> 10
      [] query = "do" /\ string = "todo" -> 20
      [] query = "do" /\ string = "google-docs" -> 70
      [] query = "do" /\ string = "devto" -> 250
      [] query = "calculater" /\ string = "calculator" -> 100
      [] OTHER -> NoMatch

\* Variant: among equal scores the last one comes first.
RECURSIVE sortByScore_lastOfTies(_)
sortByScore_lastOfTies(scored) ==
    IF scored = <<>> THEN <<>>
    ELSE LET best == CHOOSE i \in DOMAIN scored :
                         /\ \A j \in DOMAIN scored : scored[j].score <= scored[i].score
                         /\ \A j \in (i + 1)..Len(scored) : scored[j].score < scored[i].score
         IN  <<scored[best]>>
             \o sortByScore_lastOfTies(SubSeq(scored, 1, best - 1)
                                       \o SubSeq(scored, best + 1, Len(scored)))

\* Array.prototype.sort with (a, b) => b.score - a.score: descending, stable.
RECURSIVE sortByScore(_)
sortByScore(scored) ==
    IF scored = <<>> THEN <<>>
    ELSE LET best == CHOOSE i \in DOMAIN scored :
                         /\ \A j \in DOMAIN scored : scored[j].score <= scored[i].score
                         /\ \A j \in 1..(i - 1) : scored[j].score < scored[i].score
         IN  <<scored[best]>>
             \o sortByScore(SubSeq(scored, 1, best - 1)
                            \o SubSeq(scored, best + 1, Len(scored)))

ItemsOf(scored) == [i \in DOMAIN scored |-> scored[i].item]

AboveMinScore(r) == r.score >= MinScore

searchWithCommandScore(items, query, maxResults) ==
    LET scoredItems == [i \in DOMAIN items |->
                          [item |-> items[i].id,
                           score |-> scoreOf(items[i], query)]]
    IN  ItemsOf(slice(sortByScore(SelectSeq(scoredItems, AboveMinScore)),
                      maxResults))

Matched(r) == r.score # NoMatch

\* The strings searchWithFuse hands to Fuse for one item: its name, its
\* keywords and, for an action or a portal, its prefixes.
searchableStringsOf(item) ==
    <<item.name>> \o keywordsOf(item)
    \o (IF item.type \in {"action", "portal"} THEN item.prefixes ELSE <<>>)

\* items.flatMap(...)
RECURSIVE searchableStrings(_)
searchableStrings(items) ==
    IF items = <<>> THEN <<>>
    ELSE searchableStringsOf(Head(items)) \o searchableStrings(Tail(items))

\* stringToItemMap.get(string) after the forEach of Map.set calls: each set
\* replaces the item an earlier one stored under the same string.
stringToItemMap(items, string) ==
    LET owners == {i \in DOMAIN items :
                      string \in Range(searchableStringsOf(items[i]))}
    IN  items[CHOOSE i \in owners : \A j \in owners : i >= j].id

\* fuse.search(query) with shouldSort: the matching strings, best score
\* first, in the order of the list among equal scores.
fuseSearch(strings, query) ==
    LET scored == SelectSeq([i \in DOMAIN strings |->
                               [item |-> strings[i],
                                score |-> fuseScore(strings[i], query)]],
                            Matched)
        sorted == sortByScore([i \in DOMAIN scored |->
                                 [item |-> scored[i].item,
                                  score |-> 0 - scored[i].score]])
    IN  [i \in DOMAIN sorted |->
            [item |-> sorted[i].item, score |-> 0 - sorted[i].score]]

\* The loop over the results: an item is taken the first time a string
\* that maps to it comes up.
RECURSIVE scoredResults(_, _, _)
scoredResults(results, items, matchedItems) ==
    IF results = <<>> THEN <<>>
    ELSE LET result == Head(results)
             item == stringToItemMap(items, result.item)
         IN  IF item \notin matchedItems
             THEN <<[item |-> item,
                     score |-> Max(0, Min(1000, 1000 - result.score))]>>
                  \o scoredResults(Tail(results), items, matchedItems \cup {item})
             ELSE scoredResults(Tail(results), items, matchedItems)

\* Returns [threw, value]: throws while the library is not loaded.
searchWithFuse(module, items, query, maxResults) ==
    IF module = Null THEN [threw |-> TRUE, value |-> <<>>]
    ELSE LET results == fuseSearch(searchableStrings(items), query)
         IN  [threw |-> FALSE,
              value |-> ItemsOf(slice(sortByScore(scoredResults(results, items, {})),
                                      maxResults))]

searchItems(module, items, query, algorithm, maxResults) ==
    IF query = "" THEN slice(ItemsOf([i \in DOMAIN items |-> [item |-> items[i].id]]),
                             maxResults)
    ELSE IF algorithm = "fuse"
         THEN LET r == searchWithFuse(module, items, query, maxResults)
              IN  IF r.threw
                  THEN searchWithCommandScore(items, query, maxResults)
                  ELSE r.value
         ELSE searchWithCommandScore(items, query, maxResults)

searchItemsSync(module, items, query, algorithm, maxResults) ==
    IF query = "" THEN slice(ItemsOf([i \in DOMAIN items |-> [item |-> items[i].id]]),
                             maxResults)
    ELSE IF algorithm = "fuse"
         THEN LET r == searchWithFuse(module, items, query, maxResults)
              IN  IF r.threw
                  THEN searchWithCommandScore(items, query, maxResults)
                  ELSE r.value
         ELSE searchWithCommandScore(items, query, maxResults)

\* The items useSearch ranks: the whole tree, flattened.
flattenedItems == flattenNavigables(commands)

\* The record of a completed request: what the caller got, next to what an
\* uncached computation and the lexical algorithm give at that moment.
Completed(entry, module, query, algorithm, maxResults, hit, outcome, result) ==
    [entry |-> entry, query |-> query, algorithm |-> algorithm,
     maxResults |-> maxResults, hit |-> hit, outcome |-> outcome,
     result |-> result, loaded |-> module # Null,
     fresh |-> searchItems(module, flattenedItems, query, algorithm, maxResults),
     lexical |-> searchItems(module, flattenedItems, query, "commandscore",
                             maxResults)]

cacheKey(debouncedQuery, algorithm, maxResults) ==
    <<debouncedQuery, algorithm, maxResults>>

\* The filteredCommands memo of useSearch, computed for a deferred query.
UseSearch(debouncedQuery, algorithm, maxResults) ==
    LET key == cacheKey(debouncedQuery, algorithm, maxResults)
        has == \E i \in DOMAIN cacheRef : cacheRef[i].key = key
        get == cacheRef[CHOOSE i \in DOMAIN cacheRef : cacheRef[i].key = key].value
        results == searchItems(fuseModule, flattenedItems, debouncedQuery,
                               algorithm, maxResults)
        kept == IF Len(cacheRef) > CacheLimit THEN Tail(cacheRef) ELSE cacheRef
        Done(hit, result) ==
            req' = {Completed("useSearch", fuseModule, debouncedQuery, algorithm,
                              maxResults, hit, "returned", result)}
    IN  /\ UNCHANGED <<state, storeConfig, subscribers, nextSubscriptionId,
                       microtasks, pending, storage, initStatus, task, burst,
                       asyncSets, calls, nsubs, threw, reinvoked, pass, lost,
                       log, sel, detectorVars, keyVars, uiVars, lifeVars, componentVars, fuseModule,
                       fuseLoadingPromise, asyncCalls>>
        /\ IF debouncedQuery = ""
           THEN /\ Done(FALSE, slice(ItemsOf([i \in DOMAIN flattenedItems |->
                                        [item |-> flattenedItems[i].id]]),
                                     maxResults))
                /\ UNCHANGED cacheRef
           ELSE IF has
                THEN /\ Done(TRUE, get)
                     /\ UNCHANGED cacheRef
                ELSE /\ Done(FALSE, results)
                     /\ cacheRef' = Append(kept, [key |-> key, value |-> results])

storeVars ==
    <<state, storeConfig, subscribers, nextSubscriptionId, microtasks,
      pending, storage, initStatus, task, burst, asyncSets, calls, nsubs,
      threw, reinvoked, pass, lost, log, sel, detectorVars, keyVars>>

otherThanSearch == <<storeVars, uiVars, lifeVars, componentVars>>

\* The same memo for a hook that is given the array `items`: the record of
\* the request names the items, and a cache entry the items it was computed
\* for.  The key is built from the query, the algorithm and the limit alone.
UseSearchOn(items, debouncedQuery, algorithm, maxResults) ==
    LET flattened == flattenNavigables(items)
        key == cacheKey(debouncedQuery, algorithm, maxResults)
        has == \E i \in DOMAIN cacheRef : cacheRef[i].key = key
        get == cacheRef[CHOOSE i \in DOMAIN cacheRef : cacheRef[i].key = key]
        results == searchItems(fuseModule, flattened, debouncedQuery,
                               algorithm, maxResults)
        kept == IF Len(cacheRef) > CacheLimit THEN Tail(cacheRef) ELSE cacheRef
        Done(hit, result, source) ==
            req' = {[entry |-> "useSearch", items |-> items, source |-> source,
                     query |-> debouncedQuery, algorithm |-> algorithm,
                     maxResults |-> maxResults, hit |-> hit, result |-> result,
                     fresh |-> results]}
    IN  /\ UNCHANGED <<storeVars, uiVars, lifeVars, componentVars, fuseModule,
                       fuseLoadingPromise, asyncCalls>>
        /\ IF debouncedQuery = ""
           THEN /\ Done(FALSE, slice(ItemsOf([i \in DOMAIN flattened |->
                                        [item |-> flattened[i].id]]),
                                     maxResults), items)
                /\ UNCHANGED cacheRef
           ELSE IF has
                THEN /\ Done(TRUE, get.value, get.items)
                     /\ UNCHANGED cacheRef
                ELSE /\ Done(FALSE, results, items)
                     /\ cacheRef' = Append(kept, [key |-> key, value |-> results,
                                                  items |-> items])

\* A direct call of searchItems.
SearchItems(query, algorithm, maxResults) ==
    /\ req' = {Completed("searchItems", fuseModule, query, algorithm, maxResults,
                         FALSE, "returned",
                         searchItems(fuseModule, flattenedItems, query,
                                     algorithm, maxResults))}
    /\ UNCHANGED <<otherThanSearch, fuseModule, fuseLoadingPromise, cacheRef,
                   asyncCalls>>

\* A call of searchItems with the lexical algorithm on a list of its own.
SearchLexical(items, query, maxResults) ==
    /\ rank' = [items |-> items, query |-> query, maxResults |-> maxResults,
                result |-> searchItems(fuseModule, items, query, "commandscore",
                                       maxResults)]
    /\ UNCHANGED <<storeVars, searchVars, lifeVars, componentVars>>

\* A call of the fuzzy algorithm, with the library loaded, on a list of its
\* own.
SearchFuzzy(items, query, maxResults) ==
    /\ rank' = [items |-> items, query |-> query, maxResults |-> maxResults,
                result |-> searchWithFuse(Fuse, items, query, maxResults).value]
    /\ UNCHANGED <<storeVars, searchVars, lifeVars, componentVars>>

\* A direct call of searchItemsSync.
SearchItemsSync(query, algorithm, maxResults) ==
    /\ req' = {Completed("searchItemsSync", fuseModule, query, algorithm,
                         maxResults, FALSE, "returned",
                         searchItemsSync(fuseModule, flattenedItems, query,
                                         algorithm, maxResults))}
    /\ UNCHANGED <<otherThanSearch, fuseModule, fuseLoadingPromise, cacheRef,
                   asyncCalls>>

isFuseAvailable == fuseModule # Null

\* preloadFuse(): starts the import unless it is loaded or was started.
PreloadFuse ==
    /\ ~isFuseAvailable
    /\ fuseLoadingPromise = Null
    /\ fuseLoadingPromise' = "pending"
    /\ UNCHANGED <<otherThanSearch, fuseModule, cacheRef, asyncCalls, req>>

\* searchItemsAsync up to its return or its suspension on `await loadFuse()`.
\* loadFuse hands out the promise of the first import for ever, so after a
\* failed import the await throws at once.
SearchItemsAsync(query, algorithm, maxResults) ==
    LET Returns(outcome, result) ==
            /\ req' = {Completed("searchItemsAsync", fuseModule, query,
                                 algorithm, maxResults, FALSE, outcome, result)}
            /\ UNCHANGED <<fuseModule, fuseLoadingPromise, cacheRef, asyncCalls>>
    IN  /\ UNCHANGED otherThanSearch
        /\ IF query = ""
           THEN Returns("returned",
                        slice(ItemsOf([i \in DOMAIN flattenedItems |->
                                         [item |-> flattenedItems[i].id]]),
                              maxResults))
           ELSE IF algorithm = "fuse"
                THEN IF isFuseAvailable
                     THEN Returns("returned",
                                  searchWithFuse(fuseModule, flattenedItems,
                                                 query, maxResults).value)
                     ELSE IF fuseLoadingPromise = "rejected"
                          THEN Returns("rejected", <<>>)
                          ELSE /\ Len(asyncCalls) < MaxInFlight
                               /\ fuseLoadingPromise' = "pending"
                               /\ asyncCalls' = Append(asyncCalls,
                                                [query |-> query,
                                                 maxResults |-> maxResults])
                               /\ UNCHANGED <<fuseModule, cacheRef, req>>
                ELSE Returns("returned",
                             searchWithCommandScore(flattenedItems, query,
                                                    maxResults))

\* import('fuse.js') settles: loadFuse stores the module or rethrows, and
\* every suspended searchItemsAsync call resumes in the same microtask drain.
FuseImportSettles(ok) ==
    LET module == IF ok THEN Fuse ELSE Null
    IN  /\ fuseLoadingPromise = "pending"
        /\ fuseLoadingPromise' = IF ok THEN "fulfilled" ELSE "rejected"
        /\ fuseModule' = module
        /\ asyncCalls' = <<>>
        /\ req' = {Completed("searchItemsAsync", module, asyncCalls[i].query,
                             "fuse", asyncCalls[i].maxResults, FALSE,
                             IF ok THEN "returned" ELSE "rejected",
                             searchWithFuse(module, flattenedItems,
                                            asyncCalls[i].query,
                                            asyncCalls[i].maxResults).value)
                   : i \in DOMAIN asyncCalls}
        /\ UNCHANGED <<otherThanSearch, cacheRef>>

\* ------------------------------------------------------------------------
\* External completions: each is a task of its own
\* ------------------------------------------------------------------------
NewTask(job) ==
    /\ microtasks' = <<job>>
    /\ task' = "idle"
    /\ burst' = 0
    /\ asyncSets' = 0
    /\ calls' = NoCalls

\* chrome.storage.local settles the oldest request, successfully or not.
StorageSettles(i, ok) ==
    /\ CanStartTask
    /\ i \in 1..Len(pending)
    /\ FirstStorageWait(i)
    /\ LET p == pending[i] IN
       /\ storage' = IF p.at = "save"
                     THEN storageSet(storage, STORAGE_KEY, p.value, ok)
                     ELSE storage
       /\ NewTask(CASE p.at = "save" -> ResumeJob(p, "resolved")
                    [] p.at = "loadSearchLibrary" ->
                           ResumeJob(p, loadSearchLibrary(storage, ok))
                    [] p.at = "loadRecentCommands" ->
                           ResumeJob([p EXCEPT !.value = loadRecentCommands(storage, ok)],
                                     "resolved"))
    /\ pending' = RemoveAt(pending, i)
    /\ UNCHANGED <<state, storeConfig, subscribers, nextSubscriptionId, initStatus,
                   nsubs, threw, reinvoked, pass, lost, log,
                   sel, detectorVars, keyVars, searchVars, uiVars, lifeVars, componentVars>>

\* The promise returned by an action's execute settles.
ExecuteSettles(i, ok) ==
    /\ CanStartTask
    /\ i \in 1..Len(pending)
    /\ pending[i].at = "execute"
    /\ NewTask(ResumeJob(pending[i], IF ok THEN "resolved" ELSE "rejected"))
    /\ pending' = RemoveAt(pending, i)
    /\ sel' = Settled(sel, pending[i].id, ok)
    /\ UNCHANGED <<state, storeConfig, subscribers, nextSubscriptionId, storage,
                   initStatus, nsubs, threw, reinvoked, pass, lost, log,
                   detectorVars, keyVars, searchVars, uiVars, lifeVars, componentVars>>

SubscriptionIds == 0..(MaxSubs - 1)

NextStore ==
    \/ Subscribe
    \/ \E id \in SubscriptionIds : Unsubscribe(id)
    \/ \E b \in BOOLEAN : SetLoop(b)
    \/ EndTask
    \/ \E T \in SUBSET Callbacks : RunNotify(T)
    \/ RunCleanup

SpecStore == Init /\ [][NextStore]_vars

\* ------------------------------------------------------------------------
\* Specification: the store with destroy
\* ------------------------------------------------------------------------
NextDestroy ==
    \/ NextStore
    \/ Destroy

SpecDestroy == Init /\ [][NextDestroy]_vars

\* ------------------------------------------------------------------------
\* Navigation driven by calls and selections
\* ------------------------------------------------------------------------
Outcomes == {"returns", "throws", "pending"}

Queries == {"", "doc"}

NavIds == {"productivity-suite", "calculator", "copy-url"}

NavViews ==
    {targetView(findCommandById(id, commands)) :
        id \in {"productivity-suite", "calculator"}}

InitNav ==
    Created({[enableRecentCommands |-> b] : b \in BOOLEAN}, {EmptyStorage})

\* Navigation through the user's operations only.
NextSelect ==
    \/ GoBack
    \/ \E q \in Queries : HandleChange(q)
    \/ \E id \in NavIds : SelectCommand(id, TRUE, "returns")
    \/ ResumeSelect("returns")
    \/ ResumeExecuted
    \/ \E i \in 1..MaxInFlight, ok \in BOOLEAN : StorageSettles(i, ok)
    \/ RunNotify({})

SpecSelect == InitNav /\ [][NextSelect]_vars

\* The same operations with the selections watched.
InitView ==
    CreatedWith({[enableRecentCommands |-> b] : b \in BOOLEAN}, {EmptyStorage},
                NoSelections)

ViewIds == {"productivity-suite", "calculator"}

NextView ==
    \/ GoBack
    \/ \E q \in Queries : HandleChange(q)
    \/ \E id \in ViewIds :
          ~Selecting(id) /\ SelectCommand(id, TRUE, "returns")
    \/ ResumeSelect("returns")
    \/ \E i \in 1..MaxInFlight, ok \in BOOLEAN : StorageSettles(i, ok)
    \/ RunNotify({})

SpecView == InitView /\ [][NextView]_vars

\* The same operations and the Escape key.
NextEscape ==
    \/ NextSelect
    \/ HandleEscape

SpecEscape == InitNav /\ [][NextEscape]_vars

\* The same with direct store.navigate calls.
NextNav ==
    \/ \E v \in NavViews : Navigate(v)
    \/ NextSelect

SpecNav == InitNav /\ [][NextNav]_vars

\* ------------------------------------------------------------------------
\* Selections with every outcome of execute, watched by the observer
\* ------------------------------------------------------------------------
ExecIds == {"copy-url", "calculator", "no-such-command"}

InitExec == InitView

\* One call per id at a time, so that the observer can tell the calls apart.
NextExec ==
    \/ \E id \in ExecIds, onClose \in BOOLEAN, e \in Outcomes :
          ~Selecting(id) /\ SelectCommand(id, onClose, e)
    \/ \E e \in Outcomes : ResumeSelect(e)
    \/ ResumeExecuted
    \/ \E i \in 1..MaxInFlight, ok \in BOOLEAN : StorageSettles(i, ok)
    \/ \E i \in 1..MaxInFlight, ok \in BOOLEAN : ExecuteSettles(i, ok)
    \/ RunNotify({})

SpecExec == InitExec /\ [][NextExec]_vars

\* ------------------------------------------------------------------------
\* The palette with the prefix detector mounted
\* ------------------------------------------------------------------------
\* What the user types or pastes into the input.
PrefixQueries == {"", "!yt ", " !yt ", "!yt  ", "zz", "zz "}

\* The user types in the root view only.
NextPrefix ==
    \/ \E q \in PrefixQueries : state.view.type = "root" /\ HandleChange(q)
    \/ GoBack
    \/ \E newOnClose \in BOOLEAN : PrefixEffect(newOnClose, "returns")
    \/ ResumeSelect("returns")
    \/ \E i \in 1..MaxInFlight, ok \in BOOLEAN : StorageSettles(i, ok)
    \/ RunNotify({})

SpecPrefix == InitNav /\ [][NextPrefix]_vars

\* ------------------------------------------------------------------------
\* Recent commands under init, direct additions and selections
\* ------------------------------------------------------------------------
\* Ids in the order of a list an earlier session saved.
SavedOrder ==
    << "new-tab", "copy-url", "youtube-search", "calculator",
       "productivity-suite", "writing-tools", "google-docs",
       "publishing-platforms", "medium", "devto", "communication-tools" >>

\* Storage as this store leaves it: empty, or holding a saved list.
SavedStores ==
    { EmptyStorage,
      (STORAGE_KEY :> Slice0(SavedOrder, MAX_RECENT_COMMANDS))
        @@ (SEARCH_LIBRARY_KEY :> "commandscore") }

RecentIds == {"devto", "gmail"}

InitRecent == Created({[enableRecentCommands |-> TRUE]}, SavedStores)

NextRecent ==
    \/ MountInit
    \/ ResumeInitLibrary
    \/ ResumeInitRecent
    \/ /\ initStatus # "idle"
       /\ \/ \E id \in RecentIds : AddRecentCommand(id)
          \/ \E id \in RecentIds : SelectCommand(id, TRUE, "returns")
    \/ ResumeSelect("returns")
    \/ ResumeAddRecent
    \/ ResumeExecuted
    \/ \E i \in 1..(MaxInFlight + 1), ok \in BOOLEAN : StorageSettles(i, ok)
    \/ RunNotify({})

SpecRecent == InitRecent /\ [][NextRecent]_vars

\* ------------------------------------------------------------------------
\* Specification: a storage area whose every read and write fails
\* ------------------------------------------------------------------------
FaultyIds == {"devto", "productivity-suite"}

InitFaulty ==
    CreatedWith({[enableRecentCommands |-> TRUE]}, SavedStores, NoSelections)

NextFaulty ==
    \/ MountInit
    \/ ResumeInitLibrary
    \/ ResumeInitRecent
    \/ /\ initStatus # "idle"
       /\ \/ \E id \in FaultyIds : AddRecentCommand(id)
          \/ \E id \in FaultyIds :
                ~Selecting(id) /\ SelectCommand(id, TRUE, "returns")
    \/ ResumeSelect("returns")
    \/ ResumeAddRecent
    \/ ResumeExecuted
    \/ \E i \in 1..(MaxInFlight + 1) : StorageSettles(i, FALSE)
    \/ RunNotify({})

SpecFaulty == InitFaulty /\ [][NextFaulty]_vars

\* ------------------------------------------------------------------------
\* The virtual list (useVirtualList)
\* ------------------------------------------------------------------------
\* Heights in pixels.  ItemHeight is the default of config.itemHeight;
\* Viewport is the height of the scroll container.
ItemHeight == 56

Viewport == 100

NoHeights == [i \in {} |-> 0]

\* A row; height 0 stands for a row without an explicit height.
Row(id, height) == [id |-> id, height |-> height]

\* heightEstimator: absent, or with defaultHeight and an optional
\* estimateHeight (0 when it has none).
NoEstimator == [given |-> FALSE, defaultHeight |-> 0, estimateHeight |-> 0]

Estimator(defaultHeight, estimateHeight) ==
    [given |-> TRUE, defaultHeight |-> defaultHeight,
     estimateHeight |-> estimateHeight]

shouldVirtualize_whenEmpty(items, config) ==
    Get(config, "enabled", TRUE) = TRUE

\* shouldVirtualize: enabled === true (true when omitted) and a row exists.
shouldVirtualize(items, config) ==
    /\ Get(config, "enabled", TRUE) = TRUE
    /\ Len(items) > 0

\* estimateSize(index) for the 0-based index of a row.
estimateSize(v, index) ==
    IF ~shouldVirtualize(v.items, v.config) THEN ItemHeight
    ELSE IF index + 1 \notin DOMAIN v.items THEN ItemHeight
    ELSE LET item == v.items[index + 1] IN
         IF item.height # 0 THEN item.height
         ELSE IF v.config.dynamicSizing /\ index \in DOMAIN v.measuredHeights
         THEN v.measuredHeights[index]
         ELSE IF v.heightEstimator.given /\ v.heightEstimator.estimateHeight # 0
         THEN v.heightEstimator.estimateHeight
         ELSE IF v.heightEstimator.given THEN v.heightEstimator.defaultHeight
         ELSE ItemHeight

\* The virtualizer's measurements: a row starts where the rows before it end.
RECURSIVE startOf(_, _)
startOf(v, index) ==
    IF index = 0 THEN 0
    ELSE startOf(v, index - 1) + estimateSize(v, index - 1)

\* virtualizer.getTotalSize()
getTotalSize(v) == startOf(v, Len(v.items))

\* [...set].sort((a, b) => a - b)
RECURSIVE Ascending(_)
Ascending(S) ==
    IF S = {} THEN <<>>
    ELSE LET m == CHOOSE x \in S : \A y \in S : x <= y
         IN <<m>> \o Ascending(S \ {m})

\* rangeExtractor: the pinned indices merged with startIndex..endIndex.
rangeExtractor(pinnedIndices, range) ==
    Ascending(Range(pinnedIndices) \cup (range.startIndex..range.endIndex))

\* The rows of the virtualizer that intersect the viewport.
Visible(v) ==
    {i \in 0..(Len(v.items) - 1) :
        /\ startOf(v, i) + estimateSize(v, i) > v.scrollOffset
        /\ startOf(v, i) < v.scrollOffset + Viewport}

\* virtualizer.getVirtualItems(): nothing without a range.
getVirtualItems(v) ==
    IF Visible(v) = {} THEN <<>>
    ELSE LET range == [startIndex |-> CHOOSE i \in Visible(v) :
                                         \A j \in Visible(v) : i <= j,
                       endIndex |-> CHOOSE i \in Visible(v) :
                                         \A j \in Visible(v) : i >= j]
             indexes == rangeExtractor(Get(v.config, "pinnedIndices", <<>>), range)
         IN [k \in DOMAIN indexes |->
                [index |-> indexes[k], start |-> startOf(v, indexes[k]),
                 size |-> estimateSize(v, indexes[k])]]

\* What the hook returns to the component.
VirtualListResult(v) ==
    LET virtualize == shouldVirtualize(v.items, v.config) IN
    [totalSize |-> IF virtualize THEN getTotalSize(v) ELSE 0,
     virtualItems |-> IF virtualize THEN getVirtualItems(v) ELSE <<>>,
     isVirtualized |-> virtualize]

\* The height of what the scroll container holds: the virtualizer's total
\* size, or the rows rendered one after the other.
RECURSIVE renderedHeight(_)
renderedHeight(items) ==
    IF items = <<>> THEN 0
    ELSE (IF Head(items).height # 0 THEN Head(items).height ELSE ItemHeight)
         + renderedHeight(Tail(items))

contentHeight(v) ==
    IF shouldVirtualize(v.items, v.config) THEN getTotalSize(v)
    ELSE renderedHeight(v.items)

maxScroll(v) == Max(contentHeight(v) - Viewport, 0)

\* virtualizer.scrollToIndex(index, {align: 'auto'}): the offset that brings
\* the row into the viewport, the present one when the row is inside it.
offsetForIndex(v, index) ==
    LET i == Max(0, Min(index, Len(v.items) - 1))
        start == startOf(v, i)
        end == start + estimateSize(v, i)
        to == IF start < v.scrollOffset THEN start
              ELSE IF end > v.scrollOffset + Viewport THEN end - Viewport
              ELSE v.scrollOffset
    IN  Max(0, Min(to, maxScroll(v)))

\* No ResizeObserver is connected.
Disconnected ==
    [installed |-> FALSE, measuredHeights |-> NoHeights,
     measuredFor |-> NoHeights, observed |-> {}]

\* The hook as it is after its first render with these props, before any
\* effect. measuredFor is kept only in a traced hook (Traced): it remembers,
\* for each measurement, the row list that was in the document when it was
\* taken.
Rendered(items, config, heightEstimator, measuredHeights, scrollOffset) ==
    [items |-> items, config |-> config, heightEstimator |-> heightEstimator,
     measuredHeights |-> measuredHeights, measuredFor |-> NoHeights,
     traced |-> FALSE, scrollOffset |-> scrollOffset,
     observer |-> Disconnected, observerDeps |-> <<>>, resetDeps |-> <<>>,
     effects |-> "pending", op |-> "render"]

Traced(v) == [v EXCEPT !.traced = TRUE]

\* A render with new props. Its effects run afterwards (RunEffects), so the
\* sizes of this render are estimated with the measurements it finds.
UseVirtualList(items, config, heightEstimator) ==
    /\ virtualList # NoList
    /\ virtualList.effects = "done"
    /\ LET v == [virtualList EXCEPT !.items = items, !.config = config,
                                    !.heightEstimator = heightEstimator,
                                    !.effects = "pending", !.op = "render"]
       IN virtualList' = [v EXCEPT !.scrollOffset = Min(@, maxScroll(v))]
    /\ UNCHANGED <<storeVars, searchVars, uiVars, lifeVars, boundary, lookup,
                 heightCache>>

\* The effects of the last render, in the order the hook declares them.
\* The ResizeObserver effect (deps dynamicSizing, shouldVirtualize,
\* measuredHeights) disconnects the observer and connects one whose callback
\* holds the measuredHeights of that render; the reset effect (deps
\* items.length, dynamicSizing) sets measuredHeights to a new empty Map when
\* dynamicSizing is on, which renders the hook again.
RunEffects ==
    /\ virtualList # NoList
    /\ virtualList.effects = "pending"
    /\ LET v == virtualList
           virtualize == shouldVirtualize(v.items, v.config)
           observerDeps == <<v.config.dynamicSizing, virtualize, v.measuredHeights>>
           observer ==
               IF observerDeps = v.observerDeps THEN v.observer
               ELSE IF ~v.config.dynamicSizing \/ ~virtualize THEN Disconnected
               ELSE [installed |-> TRUE,
                     measuredHeights |-> v.measuredHeights,
                     measuredFor |-> v.measuredFor,
                     observed |-> {getVirtualItems(v)[k].index :
                                      k \in DOMAIN getVirtualItems(v)}]
           resetDeps == <<Len(v.items), v.config.dynamicSizing>>
           reset == resetDeps # v.resetDeps /\ v.config.dynamicSizing
           w == [v EXCEPT !.observer = observer,
                          !.observerDeps = IF reset THEN <<>> ELSE observerDeps,
                          !.resetDeps = resetDeps,
                          !.measuredHeights = IF reset THEN NoHeights ELSE @,
                          !.measuredFor = IF reset THEN NoHeights ELSE @,
                          !.effects = IF reset THEN "pending" ELSE "done",
                          !.op = "effects"]
       IN virtualList' = [w EXCEPT !.scrollOffset = Min(@, maxScroll(w))]
    /\ UNCHANGED <<storeVars, searchVars, uiVars, lifeVars, boundary, lookup,
                 heightCache>>

\* The callback of the connected ResizeObserver for an observed row that is
\* still in the document: it copies the measuredHeights it was created with,
\* adds the height, and sets the copy when it differs from what it copied.
ResizeObserved(index, height) ==
    /\ virtualList # NoList
    /\ virtualList.observer.installed
    /\ index \in virtualList.observer.observed
    /\ index < Len(virtualList.items)
    /\ shouldVirtualize(virtualList.items, virtualList.config)
    /\ height > 0
    /\ LET newHeights == (index :> height) @@ virtualList.observer.measuredHeights
           v == [virtualList EXCEPT
                    !.measuredHeights = newHeights,
                    !.measuredFor =
                        IF virtualList.traced
                        THEN (index :> virtualList.items)
                                 @@ virtualList.observer.measuredFor
                        ELSE NoHeights,
                    !.effects = "pending",
                    !.op = "resize"]
       IN /\ newHeights # virtualList.observer.measuredHeights
          /\ virtualList' = [v EXCEPT !.scrollOffset = Min(@, maxScroll(v))]
    /\ UNCHANGED <<storeVars, searchVars, uiVars, lifeVars, boundary, lookup,
                 heightCache>>

\* The user scrolls the container.
ScrollContainer(offset) ==
    /\ virtualList # NoList
    /\ offset <= maxScroll(virtualList)
    /\ virtualList' = [virtualList EXCEPT !.scrollOffset = offset, !.op = "scroll"]
    /\ UNCHANGED <<storeVars, searchVars, uiVars, lifeVars, boundary, lookup,
                 heightCache>>

\* scrollToIndex(index) of the hook's result.
ScrollToIndex(index) ==
    /\ virtualList # NoList
    /\ virtualList' =
          [virtualList EXCEPT
              !.scrollOffset =
                  IF shouldVirtualize(virtualList.items, virtualList.config)
                  THEN offsetForIndex(virtualList, index)
                  ELSE @,
              !.op = "scrollToIndex"]
    /\ UNCHANGED <<storeVars, searchVars, uiVars, lifeVars, boundary, lookup,
                 heightCache>>

\* ------------------------------------------------------------------------
\* Specification: a list rendered through useVirtualList
\* ------------------------------------------------------------------------
RowHeights == {0, 80}

\* Row lists of every length: no row has an explicit height, or the first has.
RowLists ==
    {[i \in 1..n |-> Row(i, IF i = 1 THEN h ELSE 0)] :
        n \in 0..MaxRows, h \in RowHeights}

ListConfigs ==
    {[dynamicSizing |-> d] : d \in BOOLEAN}
    \cup {[enabled |-> FALSE, dynamicSizing |-> d] : d \in BOOLEAN}
    \cup {[enabled |-> TRUE, dynamicSizing |-> TRUE, pinnedIndices |-> <<0>>]}

Estimators == {NoEstimator, Estimator(48, 0), Estimator(48, 64)}

Offsets == {0, 30}

MeasuredSizes == {30}

\* The first render of the list; a later render comes with one new prop.
InitVirtual ==
    /\ CreatedStore({[enableRecentCommands |-> TRUE]}, {EmptyStorage}, NoObserver)
    /\ \E items \in RowLists, config \in ListConfigs :
          virtualList = Rendered(items, config, NoEstimator, NoHeights, 0)
    /\ boundary = NoBoundary
    /\ lookup = NoLookup
    /\ heightCache = NoHeightCache

NextVirtual ==
    \/ \E items \in RowLists :
          UseVirtualList(items, virtualList.config, virtualList.heightEstimator)
    \/ \E config \in ListConfigs :
          UseVirtualList(virtualList.items, config, virtualList.heightEstimator)
    \/ \E e \in Estimators :
          UseVirtualList(virtualList.items, virtualList.config, e)
    \/ RunEffects
    \/ \E index \in 0..(MaxRows - 1), height \in MeasuredSizes :
          ResizeObserved(index, height)
    \/ \E offset \in Offsets : ScrollContainer(offset)
    \/ \E index \in 0..MaxRows : ScrollToIndex(index)

SpecVirtual == InitVirtual /\ [][NextVirtual]_vars

\* ------------------------------------------------------------------------
\* Specification: a dynamically sized list whose rows are replaced
\* ------------------------------------------------------------------------
\* n rows without explicit heights, with ids first, first + 1, ...
RowsFrom(first, n) == [i \in 1..n |-> Row(first + i - 1, 0)]

\* The results of two different sources, of every length.
ReplacedLists == {RowsFrom(first, n) : first \in {1, 11}, n \in 0..MaxRows}

SizingConfigs == {[dynamicSizing |-> d] : d \in BOOLEAN}

ObservedSizes == {30, 40}

InitMeasure ==
    /\ CreatedStore({[enableRecentCommands |-> TRUE]}, {EmptyStorage}, NoObserver)
    /\ \E items \in ReplacedLists :
          virtualList = Traced(Rendered(items, [dynamicSizing |-> TRUE],
                                        NoEstimator, NoHeights, 0))
    /\ boundary = NoBoundary
    /\ lookup = NoLookup
    /\ heightCache = NoHeightCache

NextMeasure ==
    \/ \E items \in ReplacedLists :
          UseVirtualList(items, virtualList.config, virtualList.heightEstimator)
    \/ \E config \in SizingConfigs :
          UseVirtualList(virtualList.items, config, virtualList.heightEstimator)
    \/ RunEffects
    \/ \E index \in 0..(MaxRows - 1), height \in ObservedSizes :
          ResizeObserved(index, height)
    \/ \E offset \in Offsets : ScrollContainer(offset)

SpecMeasure == InitMeasure /\ [][NextMeasure]_vars

\* ------------------------------------------------------------------------
\* Height estimation (virtualHeightEstimator)
\* ------------------------------------------------------------------------
\* HeightCache.maxSize
maxSize == 200

DEFAULT_HEIGHTS ==
    [default |-> 56, header |-> 32, divider |-> 16, withDescription |-> 64,
     withLongDescription |-> 72, compact |-> 48, large |-> 80]

\* The ids of the model that contain 'header', contain 'divider', start with
\* 'recent-'.
IncludesHeader == {"recent-commands-header", "settings-header"}
IncludesDivider == {"recent-commands-divider"}
StartsWithRecent == {"recent-commands-header", "recent-commands-divider",
                     "recent-open-settings"}

\* analyzeItemContent(item)
analyzeItemContent(item) ==
    LET none == [isHeader |-> FALSE, isDivider |-> FALSE,
                 hasDescription |-> FALSE, hasLongDescription |-> FALSE,
                 isCompact |-> FALSE, isLarge |-> FALSE]
    IN  IF item.id \in IncludesHeader THEN [none EXCEPT !.isHeader = TRUE]
        ELSE IF item.id \in IncludesDivider THEN [none EXCEPT !.isDivider = TRUE]
        ELSE IF item.id \in StartsWithRecent THEN [none EXCEPT !.isCompact = TRUE]
        ELSE [none EXCEPT !.hasDescription = TRUE]

\* getCacheKey: `${item.id || 'unknown'}-${item.height || 'auto'}-${index}`
getCacheKey(item, index) ==
    (IF item.id = "" THEN "unknown" ELSE item.id) \o "-"
        \o (IF item.height = 0 THEN "auto" ELSE ToString(item.height)) \o "-"
        \o ToString(index)

\* The position of the key in the Map (in insertion order), 0 when absent.
positionOf(cache, key) ==
    IF \E k \in DOMAIN cache : cache[k].cacheKey = key
    THEN CHOOSE k \in DOMAIN cache : cache[k].cacheKey = key
    ELSE 0

\* HeightCache.get: the cached height or Null, and the Map with the entry's
\* lastAccessed set to the clock.
heightCacheGet(cache, item, index, now) ==
    LET k == positionOf(cache, getCacheKey(item, index)) IN
    IF k = 0 THEN [found |-> FALSE, height |-> 0, cache |-> cache]
    ELSE [found |-> TRUE, height |-> cache[k].height,
          cache |-> [cache EXCEPT ![k].lastAccessed = now]]

\* The loop of evictOldest: oldestTime starts at Date.now() and an entry
\* replaces the oldest found so far only when it was accessed strictly before
\* it, so the loop ends on the first of the entries with the least
\* lastAccessed, or on null (0) when no entry was accessed before now.
oldestKey(cache, now) ==
    LET older == {k \in DOMAIN cache : cache[k].lastAccessed < now} IN
    IF older = {} THEN 0
    ELSE CHOOSE k \in older :
            \A j \in older :
               \/ cache[k].lastAccessed < cache[j].lastAccessed
               \/ cache[k].lastAccessed = cache[j].lastAccessed /\ k <= j

\* evictOldest deletes the entry the loop ends on, if any.
evictOldest(cache, now) ==
    LET k == oldestKey(cache, now) IN
    IF k = 0 THEN cache
    ELSE SubSeq(cache, 1, k - 1) \o SubSeq(cache, k + 1, Len(cache))

\* HeightCache.set: Map.set replaces the value of a key in place and appends
\* a new key.
heightCacheSet(cache, item, index, height, now) ==
    LET kept == IF Len(cache) >= maxSize THEN evictOldest(cache, now) ELSE cache
        entry == [cacheKey |-> getCacheKey(item, index), height |-> height,
                  lastAccessed |-> now]
        k == positionOf(kept, entry.cacheKey)
    IN  IF k = 0 THEN Append(kept, entry) ELSE [kept EXCEPT ![k] = entry]

\* The height rules of createHeightEstimator(config) for an item.
calculatedHeight(config, item) ==
    LET heights == config @@ DEFAULT_HEIGHTS
        contentAnalysis == analyzeItemContent(item)
    IN  IF contentAnalysis.isHeader THEN heights.header
        ELSE IF contentAnalysis.isDivider THEN heights.divider
        ELSE IF contentAnalysis.hasLongDescription THEN heights.withLongDescription
        ELSE IF contentAnalysis.hasDescription THEN heights.withDescription
        ELSE IF contentAnalysis.isCompact THEN heights.compact
        ELSE IF contentAnalysis.isLarge THEN heights.large
        ELSE heights.default

\* estimateHeight(item, index) of the estimator createHeightEstimator(config)
\* returned: every estimator reads and fills the cache of getHeightCache().
EstimateHeight(config, item, index) ==
    LET got == heightCacheGet(heightCache.cache, item, index, heightCache.now)
        height == calculatedHeight(config, item)
        call == [op |-> "estimateHeight", config |-> config, item |-> item,
                 index |-> index]
    IN
    /\ heightCache' =
          IF item.height # 0
          THEN [heightCache EXCEPT
                   !.call = call @@ [hit |-> FALSE, result |-> item.height]]
          ELSE IF got.found
          THEN [heightCache EXCEPT
                   !.cache = got.cache,
                   !.call = call @@ [hit |-> TRUE, result |-> got.height]]
          ELSE [heightCache EXCEPT
                   !.cache = heightCacheSet(@, item, index, height, heightCache.now),
                   !.call = call @@ [hit |-> FALSE, result |-> height]]
    /\ UNCHANGED <<storeVars, searchVars, uiVars, lifeVars, virtualList,
                   boundary, lookup>>

\* Date.now() moves on by a millisecond.
Tick ==
    /\ heightCache.now < MaxClock
    /\ heightCache' = [heightCache EXCEPT !.now = @ + 1]
    /\ UNCHANGED <<storeVars, searchVars, uiVars, lifeVars, virtualList,
                   boundary, lookup>>

\* ------------------------------------------------------------------------
\* Specification: the rows of a long list estimated one after the other
\* ------------------------------------------------------------------------
\* The row at an index of the long list.
LongListRow(index) == [id |-> "command", height |-> 0]

\* The number of rows of the long list estimated so far.
Estimated ==
    IF heightCache.cache = <<>> THEN 0
    ELSE LET last == heightCache.cache[Len(heightCache.cache)].cacheKey
         IN  CHOOSE n \in 1..MaxEstimated :
                getCacheKey(LongListRow(n - 1), n - 1) = last

NextHeights ==
    \/ /\ Estimated < MaxEstimated
       /\ EstimateHeight(<<>>, LongListRow(Estimated), Estimated)
    \/ \E index \in {0, 1} :
          /\ positionOf(heightCache.cache, getCacheKey(LongListRow(index), index)) # 0
          /\ EstimateHeight(<<>>, LongListRow(index), index)
    \/ /\ \/ Len(heightCache.cache) % Batch = 0
          \/ Len(heightCache.cache) >= maxSize
       /\ Tick

SpecHeights == Init /\ [][NextHeights]_vars

\* ------------------------------------------------------------------------
\* Specification: estimators of several height configurations
\* ------------------------------------------------------------------------
\* createHeightEstimator() and two estimators with a height of their own.
HeightConfigs == {<<>>, [withDescription |-> 100], [compact |-> 40]}

EstimatedRows ==
    {[id |-> "command", height |-> 0],
     [id |-> "recent-open-settings", height |-> 0],
     [id |-> "settings-header", height |-> 80]}

NextEstimators ==
    \E config \in HeightConfigs, item \in EstimatedRows, index \in {0, 1} :
       EstimateHeight(config, item, index)

SpecEstimators == Init /\ [][NextEstimators]_vars

\* ------------------------------------------------------------------------
\* The error boundary (ErrorBoundary)
\* ------------------------------------------------------------------------
\* The boundary after its constructor, with the props of its element.
Mounted(props) ==
    [props |-> props, hasError |-> FALSE, error |-> Null, errorInfo |-> Null,
     resetCount |-> 0, reloaded |-> FALSE, op |-> "mount"]

\* render(): what is shown, and which buttons it carries.  A custom fallback
\* is handed resetErrorBoundary.
render(b) ==
    LET isolationLevel == Get(b.props, "isolationLevel", "component")
        maxRetries == Get(b.props, "maxRetries", 2)
    IN  IF ~b.hasError
        THEN [shows |-> "children", retry |-> FALSE, reload |-> FALSE]
        ELSE IF b.props.fallback /\ Truthy(b.error)
        THEN [shows |-> "fallback", retry |-> TRUE, reload |-> FALSE]
        ELSE IF b.resetCount >= maxRetries
        THEN IF isolationLevel = "global"
             THEN [shows |-> "fatal-global", retry |-> FALSE, reload |-> TRUE]
             ELSE [shows |-> "fatal", retry |-> FALSE, reload |-> FALSE]
        ELSE [shows |-> "error", retry |-> TRUE, reload |-> FALSE]

\* A child throws while it renders: getDerivedStateFromError, then
\* componentDidCatch.
ChildThrows(error) ==
    /\ boundary # NoBoundary
    /\ ~boundary.reloaded
    /\ render(boundary).shows = "children"
    /\ boundary' = [boundary EXCEPT !.hasError = TRUE, !.error = error,
                                    !.errorInfo = "componentStack",
                                    !.op = "catch"]
    /\ UNCHANGED <<storeVars, searchVars, uiVars, lifeVars, virtualList, lookup,
                 heightCache>>

\* resetErrorBoundary, from the Try Again button or from the custom fallback.
ResetErrorBoundary ==
    /\ boundary # NoBoundary
    /\ ~boundary.reloaded
    /\ render(boundary).retry
    /\ boundary.resetCount < MaxResets
    /\ boundary' = [boundary EXCEPT !.hasError = FALSE, !.error = Null,
                                    !.errorInfo = Null,
                                    !.resetCount = @ + 1,
                                    !.op = "reset"]
    /\ UNCHANGED <<storeVars, searchVars, uiVars, lifeVars, virtualList, lookup,
                 heightCache>>

\* The Reload Extension button: chrome.runtime.reload() ends the page.
ReloadExtension ==
    /\ boundary # NoBoundary
    /\ ~boundary.reloaded
    /\ render(boundary).reload
    /\ boundary' = [boundary EXCEPT !.reloaded = TRUE, !.op = "reload"]
    /\ UNCHANGED <<storeVars, searchVars, uiVars, lifeVars, virtualList, lookup,
                 heightCache>>

\* ------------------------------------------------------------------------
\* Specification: an error boundary around content that keeps failing
\* ------------------------------------------------------------------------
IsolationLevels == {"component", "feature", "global"}

RetryLimits == {0, 1, 3}

BoundaryProps ==
    LET base == {[fallback |-> f] : f \in BOOLEAN}
        levelled == base \cup {("isolationLevel" :> l) @@ p :
                                  l \in IsolationLevels, p \in base}
    IN  levelled \cup {("maxRetries" :> n) @@ p :
                          n \in RetryLimits, p \in levelled}

\* What a child may throw: an Error, or null.
Thrown == {"Error", Null}

InitBoundary ==
    /\ CreatedStore({[enableRecentCommands |-> TRUE]}, {EmptyStorage}, NoObserver)
    /\ virtualList = NoList
    /\ \E props \in BoundaryProps : boundary = Mounted(props)
    /\ lookup = NoLookup
    /\ heightCache = NoHeightCache

NextBoundary ==
    \/ \E error \in Thrown : ChildThrows(error)
    \/ ResetErrorBoundary
    \/ ReloadExtension

SpecBoundary == InitBoundary /\ [][NextBoundary]_vars

\* ------------------------------------------------------------------------
\* Lookup by id (findNavigableById)
\* ------------------------------------------------------------------------
\* findNavigableById: the item itself, then its children, then the items
\* after it; null when no item carries the id.
RECURSIVE findNavigableById(_, _)
findNavigableById(id, items) ==
    IF items = <<>> THEN NoCommand
    ELSE LET item == Head(items) IN
         IF item.id = id THEN item
         ELSE LET found == findNavigableById(id, item.children) IN
              IF found # NoCommand THEN found
              ELSE findNavigableById(id, Tail(items))

\* A lookup in the flattened tree, as the components make it.
FindInFlattened(tree, id) ==
    /\ lookup' = [tree |-> tree, id |-> id,
                  flat |-> flattenNavigables(tree),
                  found |-> findNavigableById(id, flattenNavigables(tree))]
    /\ UNCHANGED <<storeVars, searchVars, uiVars, lifeVars, virtualList, boundary,
                 heightCache>>

\* ------------------------------------------------------------------------
\* Specification: lookups in trees of every shape
\* ------------------------------------------------------------------------
\* The trees of at most MaxNodes nodes: node k hangs under an earlier node
\* parent[k], or under the root of the tree when parent[k] = 0; a node with
\* children is a category, another one an action.
NodeId(k) == "n" \o ToString(k)

ChildrenOf(parent, k) == {c \in DOMAIN parent : parent[c] = k}

RECURSIVE Subtrees(_, _)
Subtrees(parent, nodes) ==
    IF nodes = <<>> THEN <<>>
    ELSE LET k == Head(nodes)
             below == Subtrees(parent, Ascending(ChildrenOf(parent, k)))
         IN <<IF below = <<>> THEN ActionCommand(NodeId(k), <<>>)
              ELSE CategoryCommand(NodeId(k), below)>>
            \o Subtrees(parent, Tail(nodes))

TreeOf(parent) == Subtrees(parent, Ascending(ChildrenOf(parent, 0)))

Parents(n) == {parent \in [1..n -> 0..(n - 1)] : \A k \in 1..n : parent[k] < k}

Trees == {TreeOf(parent) : parent \in UNION {Parents(n) : n \in 0..MaxNodes}}

LookupIds == {NodeId(k) : k \in 1..(MaxNodes + 1)}

NextLookup ==
    \E tree \in Trees, id \in LookupIds : FindInFlattened(tree, id)

SpecLookup == Init /\ [][NextLookup]_vars

\* ------------------------------------------------------------------------
\* Specification: ranking requests while the fuzzy library loads
\* ------------------------------------------------------------------------
SearchQueries == {"", "do", "calculater"}
SearchLimits == {1}

NextSearch ==
    \/ \E q \in SearchQueries, a \in Algorithms : UseSearch(q, a, CacheLimit)
    \/ \E q \in SearchQueries, a \in Algorithms, n \in SearchLimits :
           \/ SearchItems(q, a, n)
           \/ SearchItemsSync(q, a, n)
           \/ SearchItemsAsync(q, a, n)
    \/ PreloadFuse
    \/ \E ok \in BOOLEAN : FuseImportSettles(ok)

SpecSearch == Init /\ [][NextSearch]_vars

\* ------------------------------------------------------------------------
\* The arrays a palette may hand to the hook: the tree, and two other sets.
ItemSets ==
    { commands,
      <<ActionCommand("devto", <<>>), ActionCommand("copy-url", <<>>)>>,
      <<PortalCommand("docs", <<>>, Undefined)>> }

ItemQueries == {"", "do"}

ItemLimits == {CacheLimit}

NextItems ==
    \E items \in ItemSets, q \in ItemQueries, a \in Algorithms,
       n \in ItemLimits : UseSearchOn(items, q, a, n)

SpecItems == Init /\ [][NextItems]_vars

\* ------------------------------------------------------------------------
\* Specification: the search hook under a long run of distinct queries
\* ------------------------------------------------------------------------
\* The k-th query the user types.
QueryNo(k) == "q" \o ToString(k)

\* The number of the query typed last among those in the cache.
Typed ==
    IF cacheRef = <<>> THEN 0
    ELSE CHOOSE k \in 1..MaxQueries : QueryNo(k) = Last(cacheRef).key[1]

NextCache ==
    \/ /\ Typed < MaxQueries
       /\ UseSearch(QueryNo(Typed + 1), "commandscore", CacheLimit)
    \/ \E i \in DOMAIN cacheRef :
          UseSearch(cacheRef[i].key[1], "commandscore", CacheLimit)

SpecCache == Init /\ [][NextCache]_vars

\* ------------------------------------------------------------------------
\* Specification: the lexical ranking applied to lists of items
\* ------------------------------------------------------------------------
\* Items with and without keywords and prefixes; two of them score alike on
\* the query "do" and one scores below the threshold.
RankItems ==
    { [keywords |-> <<"docs">>] @@ ActionCommand("google-docs", <<>>),
      ActionCommand("devto", <<>>),
      [keywords |-> <<"mail", "todo">>] @@ ActionCommand("gmail", <<>>),
      [keywords |-> <<>>] @@ PortalCommand("docs-search", <<"!do">>, Undefined),
      CategoryCommand("writing-tools", <<>>) }

\* The lists of at most n items with distinct ids.
ListsOf(S, n) ==
    { l \in UNION {[1..k -> S] : k \in 0..n} :
        \A i, j \in DOMAIN l : l[i] = l[j] => i = j }

RankQueries == {"", "do", "zz"}
RankLimits == {1, 2, 50}

NextRank ==
    \E items \in ListsOf(RankItems, MaxItems), q \in RankQueries,
       n \in RankLimits : SearchLexical(items, q, n)

SpecRank == Init /\ [][NextRank]_vars

\* ------------------------------------------------------------------------
\* Specification: the fuzzy ranking applied to lists of items
\* ------------------------------------------------------------------------
\* Items of which several carry the string "docs" or the prefix "!do".
FuzzyItems ==
    { ActionCommand("docs", <<>>),
      [keywords |-> <<"docs">>] @@ ActionCommand("google-docs", <<>>),
      [keywords |-> <<"mail", "docs">>] @@ ActionCommand("gmail", <<"!do">>),
      PortalCommand("docs-search", <<"!do">>, Undefined),
      CategoryCommand("devto", <<>>) }

NextFuzzy ==
    \E items \in ListsOf(FuzzyItems, MaxItems), q \in RankQueries,
       n \in RankLimits : SearchFuzzy(items, q, n)

SpecFuzzy == Init /\ [][NextFuzzy]_vars

\* ------------------------------------------------------------------------
\* Specification: the keyboard moving through the items of the view
\* ------------------------------------------------------------------------
Keys == {"ArrowDown", "ArrowUp", "Enter", "a"}
TagNames == {"DIV", "INPUT"}

\* The lists the updater is handed: nothing, one action, three actions.
ShownCommands == {<<>>, <<"copy-url">>, <<"copy-url", "gmail", "new-tab">>}

InitKeys == Created({[enableRecentCommands |-> FALSE]}, {EmptyStorage})

NextKeys ==
    \/ \E key \in Keys, tagName \in TagNames :
           HandleGlobalKeyDown(key, tagName, "returns")
    \/ \E shown \in ShownCommands : UpdateNavigationItems(shown, NoCategoryCommands)
    \/ \E b \in BOOLEAN : state.loop # b /\ SetStateTask([loop |-> b])
    \/ state.activeId # Null /\ SetStateTask([activeId |-> Null])
    \/ ResumeExecuted
    \/ RunNotify({})

SpecKeys == InitKeys /\ [][NextKeys]_vars

\* ------------------------------------------------------------------------
\* Specification: the highlight under refreshes of the items and key moves
\* ------------------------------------------------------------------------
\* The lists of the keyboard specification and one that starts with a portal.
RefreshedLists == ShownCommands \cup {<<"calculator", "gmail">>}

\* Keys, refreshes, the loop option, and a click on the input, which ends
\* keyboard navigation.
NextHighlight ==
    \/ \E key \in {"ArrowDown", "ArrowUp", "Enter"} :
           HandleGlobalKeyDown(key, "DIV", "returns")
    \/ \E shown \in RefreshedLists :
           UpdateNavigationItems(shown, NoCategoryCommands)
    \/ \E b \in BOOLEAN : state.loop # b /\ SetStateTask([loop |-> b])
    \/ /\ Get(state, "keyboardNavigationActive", FALSE)
       /\ SetStateTask([keyboardNavigationActive |-> FALSE])
    \/ GoBack
    \/ ResumeExecuted
    \/ RunNotify({})

SpecHighlight == InitKeys /\ [][NextHighlight]_vars

\* ------------------------------------------------------------------------
\* Specification: the rows of the root view with recent commands recorded
\* ------------------------------------------------------------------------
InitRows == Created({[enableRecentCommands |-> TRUE]}, {EmptyStorage})

NextRows ==
    \/ \E key \in {"ArrowDown", "Enter"} :
           HandleGlobalKeyDown(key, "DIV", "returns")
    \/ \E shown \in {<<"copy-url">>, <<"copy-url", "gmail">>} :
           UpdateNavigationItems(shown, NoCategoryCommands)
    \/ ResumeSelect("returns")
    \/ ResumeExecuted
    \/ \E i \in 1..MaxInFlight, ok \in BOOLEAN : StorageSettles(i, ok)
    \/ RunNotify({})

SpecRows == InitRows /\ [][NextRows]_vars

Spec == SpecStore

\* ------------------------------------------------------------------------
\* Properties
\* ------------------------------------------------------------------------
LastOp == IF log = <<>> THEN "none" ELSE log[1].op

\* C1: a burst of synchronous setState calls made by one task causes at most
\* one invocation of each subscriber callback (one notification pass per
\* burst, not one per call).
C1_OnePassPerBurst ==
    asyncSets = 0 => \A c \in Callbacks : calls[c] <= 1

\* C2: navigate(v) sets view to v, appends the previous view to history and
\* keeps every other field of the state, whatever the history depth.
C2_NavigateEffect ==
    LastOp = "navigate" =>
        LET r == log[1] IN
        /\ state.view = r.arg
        /\ state.history = r.pre.history \o <<r.pre.view>>
        /\ DOMAIN state = DOMAIN r.pre
        /\ \A f \in DOMAIN r.pre \ {"view", "history"} : state[f] = r.pre[f]

C2_Witness ==
    /\ LastOp = "navigate"
    /\ Len(log[1].pre.history) >= 1
    /\ "lastNavigationWasBack" \in DOMAIN log[1].pre
    /\ log[1].pre.recentCommands # <<>>

\* C3: goBack returns false exactly when history is empty, and then changes
\* no field and schedules no notification; otherwise it returns true, moves
\* the last element of history into view and sets lastNavigationWasBack.
C3_GoBackEffect ==
    LastOp = "goBack" =>
        LET r == log[1] IN
        /\ (r.ret = FALSE) <=> (r.pre.history = <<>>)
        /\ (r.ret = TRUE) <=> (r.pre.history # <<>>)
        /\ r.ret = FALSE => (state = r.pre /\ r.sched = 0)
        /\ r.ret = TRUE =>
              /\ state.view = r.pre.history[Len(r.pre.history)]
              /\ Len(state.history) = Len(r.pre.history) - 1
              /\ \A i \in 1..Len(state.history) : state.history[i] = r.pre.history[i]
              /\ state.lastNavigationWasBack = TRUE

\* goBack failed on an empty history after an earlier goBack had set the flag.
C3_Witness ==
    /\ LastOp = "goBack"
    /\ log[1].ret = FALSE
    /\ Get(state, "lastNavigationWasBack", FALSE) = TRUE

\* C4: navigate(v) immediately followed by goBack() restores the view and
\* the history of the state navigate was called in; only
\* lastNavigationWasBack may differ from that state.
C4_NavigateThenGoBack ==
    (Len(log) = 2 /\ log[1].op = "goBack" /\ log[2].op = "navigate") =>
        LET s == log[2].pre IN
        /\ log[1].ret = TRUE
        /\ state.view = s.view
        /\ state.history = s.history
        /\ DOMAIN state \ {"lastNavigationWasBack"}
              = DOMAIN s \ {"lastNavigationWasBack"}
        /\ \A f \in DOMAIN s \ {"lastNavigationWasBack"} : state[f] = s[f]

C4_Witness ==
    /\ Len(log) = 2
    /\ log[1].op = "goBack"
    /\ log[2].op = "navigate"
    /\ log[2].pre.history # <<>>
    /\ log[2].pre.view.query # ""

\* C5: right after a navigate or a goBack, the last element of history
\* differs from the current view.
C5_TopDiffersFromView ==
    LastOp \in {"navigate", "goBack"} =>
        (state.history = <<>> \/ Last(state.history) # state.view)

\* C6: recentCommands never holds an id twice and never more than 10 ids.
C6_RecentBounded ==
    /\ NoDuplicates(state.recentCommands)
    /\ Len(state.recentCommands) <= 10

\* A full list loaded by init received an id it did not hold.
C6_Witness ==
    /\ LastOp = "addRecentCommand"
    /\ Len(log[1].pre.recentCommands) = 10
    /\ log[1].arg \notin Range(log[1].pre.recentCommands)
    /\ initStatus = "done"

\* C7: addRecentCommand(id) leaves id first, followed by the previous list
\* without id, cut to 10 entries; repeating the id at the front changes
\* nothing, and a new id added to a full list drops the oldest entry.
C7_AddRecentResult ==
    LastOp = "addRecentCommand" =>
        LET id == log[1].arg
            prev == log[1].pre.recentCommands
            others == SelectSeq(prev, LAMBDA x : x # id)
            expected == <<id>> \o others
            new == state.recentCommands
        IN /\ Len(new) = (IF Len(expected) > 10 THEN 10 ELSE Len(expected))
           /\ \A i \in 1..Len(new) : new[i] = expected[i]
           /\ (prev # <<>> /\ prev[1] = id) => new = prev
           /\ (Len(prev) = 10 /\ id \notin Range(prev)) =>
                 new = <<id>> \o SubSeq(prev, 1, 9)

\* The id was already in the list, behind its front.
C7_Witness ==
    /\ LastOp = "addRecentCommand"
    /\ \E i \in 2..Len(log[1].pre.recentCommands) :
          log[1].pre.recentCommands[i] = log[1].arg
    /\ Len(log[1].pre.recentCommands) = 10

\* C8: init's loads are applied before any user operation takes effect, so
\* no id recorded by addRecentCommand is discarded by a later write of init.
C8_InitBeforeUse == lost = {}

\* C9: a callback that threw during a pass is not invoked by any later pass.
C9_ThrowerNeverReinvoked == reinvoked = {}

\* C10: when a callback throws during a pass, every subscriber registered at
\* that time is still invoked in that pass, and the state written by the
\* latest setState stays in effect.
C10_ThrowIsolated ==
    pass.threw # {} =>
        /\ pass.invoked = pass.registered
        /\ pass.after = pass.lastWrite

\* The first subscriber threw and a later one did not.
C10_Witness ==
    /\ Len(pass.registered) >= 2
    /\ pass.registered[1] \in pass.threw
    /\ pass.registered[2] \notin pass.threw
    /\ pass.after.loop = TRUE

\* C11: selectCommand(id, onClose) with an id no node of the tree carries is
\* a no-op: state (view, history, recentCommands), storage, the suspended
\* calls and the microtask queue (no notification) are as before the call,
\* execute and onClose are not invoked, and the call has returned.
C11_UnknownIdNoOp ==
    sel # NoObserver =>
        \A id \in DOMAIN sel :
            ~sel[id].known =>
                /\ sel[id].post = sel[id].pre
                /\ sel[id].execs = 0
                /\ sel[id].closes = 0
                /\ ~Selecting(id)

\* The unknown id was selected with an onClose, in a store that records
\* recent commands and is away from its initial view.
C11_Witness ==
    /\ sel # NoObserver
    /\ "no-such-command" \in DOMAIN sel
    /\ sel["no-such-command"].onClose
    /\ storeConfig.enableRecentCommands
    /\ sel["no-such-command"].pre.state.history # <<>>
    /\ sel["no-such-command"].pre.state.recentCommands # <<>>

\* The ids of the tree that name an action.
ActionIds == {id \in CommandIds(commands) :
                 findCommandById(id, commands).type = "action"}

\* C12: for an Action, selectCommand invokes execute once, and onClose only
\* after the future execute returned has resolved, never before the call of
\* execute or while its future is pending; the steps of the selection leave
\* view and history as they were.
C12_ExecuteThenClose ==
    sel # NoObserver =>
        /\ \A id \in DOMAIN sel \cap ActionIds :
              /\ sel[id].execs <= 1
              /\ sel[id].closes <= sel[id].execs
              /\ sel[id].closes >= 1 => sel[id].closedOn = "resolved"
              /\ sel[id].phase \in {"none", "pending"} => sel[id].closes = 0
              /\ ~Selecting(id) => sel[id].execs = 1
        /\ (LastOp \in {"addRecentCommand", "execute", "onClose"}
              /\ log[1].arg \in ActionIds) =>
                 /\ log[1].post.view = log[1].pre.view
                 /\ log[1].post.history = log[1].pre.history

\* onClose ran for an action selected in a store that records recent
\* commands, while another view than the root was shown.
C12_Witness ==
    /\ sel # NoObserver
    /\ "copy-url" \in DOMAIN sel
    /\ sel["copy-url"].closes = 1
    /\ LastOp = "onClose"
    /\ storeConfig.enableRecentCommands
    /\ state.history # <<>>

\* C13: when execute throws or its future rejects, onClose is not invoked
\* for that selection, a throw ends the call at once, view and history are
\* as before, and the store accepts the next selection.
C13_ExecuteFailureContained ==
    sel # NoObserver =>
        \A id \in DOMAIN sel \cap ActionIds :
            sel[id].phase \in {"threw", "rejected"} =>
                /\ sel[id].closes = 0
                /\ sel[id].phase = "threw" => ~Selecting(id)
                /\ (LastOp = "execute" /\ log[1].arg = id) =>
                       /\ state.view = log[1].pre.view
                       /\ state.history = log[1].pre.history
                /\ (~Selecting(id) /\ CanStartTask /\ InFlight < MaxInFlight) =>
                       ENABLED SelectCommand(id, TRUE, "returns")

\* After the future of execute rejected and the call ended, a portal was
\* selected and navigated to.
C13_Witness ==
    /\ sel # NoObserver
    /\ "copy-url" \in DOMAIN sel
    /\ sel["copy-url"].phase = "rejected"
    /\ sel["copy-url"].onClose
    /\ ~Selecting("copy-url")
    /\ LastOp = "navigate"

\* The views a state holds: the current one and those of history.
ViewsOf(st) == {st.view} \cup Range(st.history)

\* C14: selectCommand on a category (a portal) c pushes the current view on
\* history and shows {type: category, categoryId: c, query: ''} ({type:
\* portal, portalId: c, query: '', showSearchInput: the portal's setting})
\* without invoking onClose; every view other than the root one, current or
\* in history, after any query edit and goBack, has exactly one of portalId
\* and categoryId.
C14_SelectNavigates ==
    sel # NoObserver =>
        /\ \A id \in DOMAIN sel :
              sel[id].phase = "navigated" =>
                  LET command == findCommandById(id, commands) IN
                  /\ command.type \in {"category", "portal"}
                  /\ command.type = "category" =>
                        sel[id].post.view =
                            [type |-> "category", categoryId |-> id, query |-> ""]
                  /\ command.type = "portal" =>
                        sel[id].post.view =
                            [type |-> "portal", portalId |-> id, query |-> "",
                             showSearchInput |-> command.showSearchInput]
                  /\ sel[id].post.history
                        = Append(sel[id].pre.history, sel[id].pre.view)
                  /\ sel[id].closes = 0
        /\ \A v \in ViewsOf(state) :
              v.type # "root" =>
                  ("portalId" \in DOMAIN v) # ("categoryId" \in DOMAIN v)

\* A portal was selected from a category view whose query had been edited,
\* and the user then went back and edited the query again.
C14_Witness ==
    /\ sel # NoObserver
    /\ "calculator" \in DOMAIN sel
    /\ sel["calculator"].phase = "navigated"
    /\ sel["calculator"].pre.view.type = "category"
    /\ sel["calculator"].pre.view.query = "doc"
    /\ Get(state, "lastNavigationWasBack", FALSE)
    /\ state.view.type = "category"
    /\ state.view.query = ""

\* The nodes of a tree in pre-order.
RECURSIVE PreOrder(_)
PreOrder(items) ==
    IF items = <<>> THEN <<>>
    ELSE <<Head(items)>> \o PreOrder(Head(items).children)
                         \o PreOrder(Tail(items))

\* The ids of the nodes that list the token among their prefixes, in pre-order.
IdsWithPrefix(t) ==
    LET nodes == SelectSeq(PreOrder(commands), LAMBDA n : t \in Range(n.prefixes))
    IN [i \in 1..Len(nodes) |-> nodes[i].id]

\* The query is a recognised shortcut followed by spaces.
IsShortcut(q) ==
    \E t \in Tokens \ {""}, l, r \in Pads :
        /\ q = l \o t \o r \o " "
        /\ IdsWithPrefix(t) # <<>>

\* A run of the detector called selectCommand for a portal and the
\* navigation of that call is the latest store operation.
TriggeredNavigation ==
    /\ effect.fired # Null
    /\ findCommandById(effect.fired, commands).type = "portal"

\* C15: from the root view with empty history, a query 'p ' whose p is a
\* prefix of portal P leads to the view {type: portal, portalId: P, query: ''}
\* with history holding exactly the root view with query 'p ', and a goBack
\* right after it restores that root view with empty history.
C15_PrefixOpensPortal ==
    (TriggeredNavigation /\ effect.fromRoot) =>
        /\ (/\ LastOp = "navigate"
            /\ log[1].arg.type = "portal"
            /\ log[1].arg.portalId = effect.fired) =>
               /\ state.view.query = ""
               /\ state.history = <<[type |-> "root", query |-> effect.query]>>
        /\ (/\ Len(log) = 2
            /\ log[1].op = "goBack"
            /\ log[2].op = "navigate"
            /\ log[2].arg.type = "portal"
            /\ log[2].arg.portalId = effect.fired) =>
               /\ state.view = [type |-> "root", query |-> effect.query]
               /\ state.history = <<>>

\* The latest store operation is the detector's consumption of the flag, in
\* a view whose query is a recognised shortcut followed by a space.
BackConsumed ==
    /\ LastOp = "setState"
    /\ log[1].arg = [lastNavigationWasBack |-> FALSE]
    /\ IsShortcut(state.view.query)

\* C16: once a goBack has restored a query that is a recognised shortcut
\* followed by a space and the detector has consumed the flag without
\* triggering, no run of the detector on that unchanged query calls
\* selectCommand.
C16_NoTriggerAfterBack ==
    [][BackConsumed => ~(effect' # effect /\ effect'.fired # Null)]_vars

C18_TriggerShape ==
    effect.fired # Null =>
        \E t \in Tokens \ {""} :
            /\ effect.query = t \o " "
            /\ IdsWithPrefix(t) # <<>>
            /\ effect.fired = IdsWithPrefix(t)[1]

\* C19: a ranking request answered from the cache of useSearch returns what
\* an uncached computation with the same items, query, algorithm and
\* maxResults returns at the time of that request, whatever happened since
\* the entry was stored (the fuzzy library finishing its load included).
C19_CacheEqualsUncached ==
    \A r \in req : r.entry = "useSearch" /\ r.hit => r.result = r.fresh

\* C20: a request with the fuzzy algorithm never fails its caller, through
\* searchItems, searchItemsSync, searchItemsAsync or useSearch and in every
\* state of the library's load, and a result produced while the library is
\* not loaded is the lexical algorithm's result for the same arguments.
C20_FuzzyNeverFails ==
    \A r \in req :
        r.algorithm = "fuse" =>
            /\ r.outcome = "returned"
            /\ ~r.loaded => r.result = r.lexical

\* The searchable strings of an item and the best score among them.
StringsOf(item) ==
    {item.name} \cup Range(keywordsOf(item))
    \cup (IF item.type \in {"action", "portal"} THEN Range(item.prefixes) ELSE {})

BestField(item, query) ==
    CHOOSE m \in {commandScore(x, query) : x \in StringsOf(item)} :
        \A x \in StringsOf(item) : commandScore(x, query) <= m

\* Item i of the list comes before item j in the ranking: a higher score, or
\* the same score and an earlier place in the input.
RankedBefore(items, query, i, j) ==
    \/ BestField(items[i], query) > BestField(items[j], query)
    \/ BestField(items[i], query) = BestField(items[j], query) /\ i < j

Qualifying(items, query) ==
    {i \in DOMAIN items : 10 * BestField(items[i], query) >= 1000}

\* C21: for a non-empty query the lexical ranking returns exactly the items
\* whose best field scores at least 0.1, by descending score with equal
\* scores in input order, cut to the first maxResults: no returned item is
\* below the threshold and the result is never longer than maxResults.
C21_LexicalRanking ==
    rank.query # "" =>
        LET items == rank.items
            q == rank.query
            r == rank.result
            At(k) == CHOOSE i \in DOMAIN items : items[i].id = r[k]
        IN  /\ Len(r) = Min(rank.maxResults, Cardinality(Qualifying(items, q)))
            /\ \A k \in DOMAIN r : \E i \in Qualifying(items, q) : items[i].id = r[k]
            /\ \A k, l \in DOMAIN r : k < l => RankedBefore(items, q, At(k), At(l))
            /\ \A i \in Qualifying(items, q) :
                   (\A k \in DOMAIN r : r[k] # items[i].id)
                       => \A k \in DOMAIN r : RankedBefore(items, q, At(k), i)

\* A ranking that was cut, where one of two equally scored items was kept and
\* the other dropped, from a list that also held an item below the threshold
\* or without any match.
C21_Witness ==
    /\ rank.query # ""
    /\ Len(rank.result) = rank.maxResults
    /\ \E i, j \in Qualifying(rank.items, rank.query) :
           /\ i < j
           /\ BestField(rank.items[i], rank.query) = BestField(rank.items[j], rank.query)
           /\ \E k \in DOMAIN rank.result : rank.result[k] = rank.items[i].id
           /\ \A k \in DOMAIN rank.result : rank.result[k] # rank.items[j].id

\* C22: a request with the empty query returns the first maxResults items of
\* the input list in input order, whatever the algorithm, the entry point and
\* the state of the fuzzy library's load, and the step that serves it leaves
\* the result cache as it was.
C22_EmptyQueryIsPrefix ==
    [][\A r \in req' :
           r.query = "" =>
               /\ r.outcome = "returned"
               /\ r.result = [k \in 1..Min(r.maxResults, Len(flattenedItems)) |->
                                 flattenedItems[k].id]
               /\ cacheRef' = cacheRef]_vars

\* An empty query served by useSearch with the fuzzy algorithm once the
\* library has loaded and the cache holds entries.
C22_Witness ==
    /\ cacheRef # <<>>
    /\ \E r \in req :
           /\ r.query = ""
           /\ r.algorithm = "fuse"
           /\ r.loaded
           /\ r.entry = "useSearch"
           /\ Len(r.result) = Len(flattenedItems)

\* The key event reached the controller: its target is no text input and the
\* list it found is not empty.
Handled(keys) ==
    /\ kbd.key \in keys
    /\ kbd.tagName \notin {"INPUT", "TEXTAREA"}
    /\ kbd.items # <<>>

\* The index from 0 of the highlight the key event found, -1 without one.
CurrentOf(k) ==
    IF \E i \in DOMAIN k.items : k.items[i].id = k.activeId
    THEN (CHOOSE i \in DOMAIN k.items : k.items[i].id = k.activeId) - 1
    ELSE -1

\* current+1 or current-1, clamped without loop and wrapped with it.
MovedIndex(k) ==
    LET n == Len(k.items)
        raw == IF k.key = "ArrowDown" THEN CurrentOf(k) + 1 ELSE CurrentOf(k) - 1
    IN  IF k.loop
        THEN (IF raw > n - 1 THEN 0 ELSE IF raw < 0 THEN n - 1 ELSE raw)
        ELSE (IF raw > n - 1 THEN n - 1 ELSE IF raw < 0 THEN 0 ELSE raw)

\* C23: a move-down or move-up over a non-empty list leaves activeId at the
\* id of index current+1 or current-1 (current is -1 without a highlight in
\* the list), clamped to the list when loop is off and wrapped when it is on.
C23_MoveSelectsNeighbour ==
    Handled({"ArrowDown", "ArrowUp"}) => kbd.after = kbd.items[MovedIndex(kbd) + 1].id

\* C24: at the last index a move-down writes nothing and schedules no
\* notification without loop and highlights the first item with loop; at
\* index 0 a move-up does the same towards the last item; with an empty list
\* no navigation key writes the state.
C24_EndsOfTheList ==
    /\ Handled({"ArrowDown"}) /\ CurrentOf(kbd) = Len(kbd.items) - 1
           => IF kbd.loop THEN kbd.after = kbd.items[1].id
              ELSE ~kbd.wrote /\ kbd.scheduled = 0
    /\ Handled({"ArrowUp"}) /\ CurrentOf(kbd) = 0
           => IF kbd.loop THEN kbd.after = kbd.items[Len(kbd.items)].id
              ELSE ~kbd.wrote /\ kbd.scheduled = 0
    /\ isNavigationKey(kbd.key) /\ kbd.items = <<>>
           => ~kbd.wrote /\ kbd.scheduled = 0

\* A move-down from the last of several items that wrapped to the first.
C24_Witness ==
    /\ Handled({"ArrowDown"})
    /\ Len(kbd.items) > 1
    /\ CurrentOf(kbd) = Len(kbd.items) - 1
    /\ kbd.loop
    /\ kbd.wrote
    /\ kbd.after = kbd.items[1].id

\* C25: the activate key over a non-empty list calls selectCommand once, with
\* the id of the highlighted item, and leaves activeId as it was; without a
\* highlight in the list it calls selectCommand for nothing.
C25_ActivateSelectsHighlight ==
    Handled({"Enter"}) =>
        IF CurrentOf(kbd) >= 0
        THEN /\ kbd.selected = <<kbd.items[CurrentOf(kbd) + 1].id>>
             /\ kbd.after = kbd.activeId
        ELSE kbd.selected = <<>>

\* The activate key on a highlighted item that is not the first of the list.
C25_Witness ==
    /\ Handled({"Enter"})
    /\ CurrentOf(kbd) > 0
    /\ kbd.selected # <<>>

\* The oldest storage request, when it is a write of the recent commands.
SaveSettling(i) ==
    /\ i \in 1..Len(pending)
    /\ FirstStorageWait(i)
    /\ pending[i].at = "save"
    /\ pending' = RemoveAt(pending, i)

\* C26: when every storage operation fails, a failed write of the recent
\* commands changes nothing in memory or in storage and resumes its caller
\* normally, so that every selectCommand call goes on to execute or navigate;
\* init completes with the configured search library and an empty list of
\* recent commands loaded, whatever the storage area holds.
C26_StorageFailuresSwallowed ==
    [][/\ \A i \in 1..(MaxInFlight + 1) :
             SaveSettling(i) =>
                /\ state' = state
                /\ storage' = storage
                /\ microtasks' = <<ResumeJob(pending[i], "resolved")>>
       /\ (initStatus # "done" /\ initStatus' = "done") =>
             /\ state'.searchLibrary = initialState(FALSE, "fuse").searchLibrary
             /\ state'.recentCommands = <<>>
       /\ initStatus' = "done" =>
             state'.searchLibrary = initialState(FALSE, "fuse").searchLibrary
       /\ \A id \in DOMAIN sel' :
             ~Selecting(id)' => sel'[id].phase \in {"resolved", "navigated"}
      ]_vars

\* An action was selected and has executed, its identifier is in the list in
\* memory, and the storage area, which holds another library and another
\* list, was left as it was while init completed.
C26_Witness ==
    /\ sel # NoObserver
    /\ "devto" \in DOMAIN sel
    /\ sel["devto"].phase = "resolved"
    /\ ~Selecting("devto")
    /\ initStatus = "done"
    /\ state.recentCommands = <<"devto">>
    /\ STORAGE_KEY \in DOMAIN storage
    /\ storage[SEARCH_LIBRARY_KEY] = "commandscore"
    /\ state.searchLibrary = "fuse"

\* C27: destroy leaves no subscriber and the state given at creation, a
\* second destroy changes nothing more, and no callback that was registered
\* when destroy ran is invoked by any later notification.
C27_DestroyResets ==
    [][/\ LET d == destroy(Closure)' IN
          /\ d.subscribers = <<>>
          /\ d.state = createdState
          /\ destroy(d) = d
       /\ destroyed' # destroyed =>
             /\ subscribers' = <<>>
             /\ state' = createdState
             /\ Closure' = destroy(Closure)
       /\ \A c \in destroyed : calls'[c] <= calls[c]
      ]_vars

\* After a destroy that removed a subscriber, a further subscriber was
\* registered, setState was called on the state given at creation, and the
\* notification of that write invoked the new subscriber only.
C27_Witness ==
    /\ destroyed # {}
    /\ LastOp = "setState"
    /\ log[1].pre = createdState
    /\ pass.lastWrite = log[1].post
    /\ pass.invoked # <<>>
    /\ Range(pass.invoked) \cap destroyed = {}
    /\ state = log[1].post

\* The list is disabled by its configuration, or has no row.
Disabled(v) ==
    \/ "enabled" \in DOMAIN v.config /\ ~v.config.enabled
    \/ Len(v.items) = 0

\* C28: while virtualization is disabled or the row list is empty, the hook
\* reports totalSize 0, no virtual item and isVirtualized false, whatever the
\* rows, their heights and the measurements, and a scrollToIndex call leaves
\* the scroll offset and the measurements as they were.
C28_DisabledListIsInert ==
    [][Disabled(virtualList') =>
          /\ VirtualListResult(virtualList') =
                [totalSize |-> 0, virtualItems |-> <<>>, isVirtualized |-> FALSE]
          /\ virtualList'.op = "scrollToIndex" =>
                [virtualList' EXCEPT !.op = virtualList.op] = virtualList
      ]_vars

\* scrollToIndex was called on a disabled list of two rows that holds a
\* measurement and is scrolled away from the top.
C28_Witness ==
    /\ virtualList.op = "scrollToIndex"
    /\ "enabled" \in DOMAIN virtualList.config
    /\ ~virtualList.config.enabled
    /\ Len(virtualList.items) = 2
    /\ virtualList.measuredHeights # NoHeights
    /\ virtualList.scrollOffset > 0

\* C29: with maxRetries = n (2 when omitted), once n resets have been used
\* and an error is caught, the boundary offers no retry, offers a reload only
\* at global scope, and does not render its children again.
C29_RetriesAreBounded ==
    [][LET n == Get(boundary.props, "maxRetries", 2) IN
       (boundary.hasError /\ boundary.resetCount >= n) =>
          /\ ~render(boundary).retry
          /\ render(boundary).reload =>
                Get(boundary.props, "isolationLevel", "component") = "global"
          /\ render(boundary').shows # "children"
      ]_vars

\* The node of a tree at a path of child positions, and the paths of a tree.
RECURSIVE NodeAt(_, _)
NodeAt(items, path) ==
    IF Len(path) = 1 THEN items[path[1]]
    ELSE NodeAt(items[path[1]].children, Tail(path))

RECURSIVE PathsOf(_)
PathsOf(items) ==
    UNION {{<<i>>} \cup {<<i>> \o p : p \in PathsOf(items[i].children)} :
              i \in DOMAIN items}

\* Pre-order: a node comes before the nodes below it, and a subtree before
\* the subtrees to its right.
RECURSIVE Precedes(_, _)
Precedes(p, q) ==
    IF p = <<>> THEN q # <<>>
    ELSE IF q = <<>> THEN FALSE
    ELSE IF Head(p) # Head(q) THEN Head(p) < Head(q)
    ELSE Precedes(Tail(p), Tail(q))

\* The number of paths that come before p in pre-order.
RankOf(items, p) == Cardinality({q \in PathsOf(items) : Precedes(q, p)})

\* C30: the flattened tree lists every node of the tree once, in pre-order,
\* and for an id carried by a node, findNavigableById on the flattened tree
\* returns the first node in pre-order that carries the id.
C30_FlatLookupIsPreOrder ==
    lookup # NoLookup =>
        LET T == lookup.tree
            carrying == {p \in PathsOf(T) : NodeAt(T, p).id = lookup.id}
        IN  /\ Len(lookup.flat) = Cardinality(PathsOf(T))
            /\ \A p \in PathsOf(T) : lookup.flat[RankOf(T, p) + 1] = NodeAt(T, p)
            /\ carrying # {} =>
                  \E p \in carrying :
                     /\ \A q \in carrying : q = p \/ Precedes(p, q)
                     /\ lookup.found = NodeAt(T, p)

\* The id of a category that lies below another category and after a leaf
\* was looked up in a tree of four nodes.
C30_Witness ==
    /\ lookup # NoLookup
    /\ Len(lookup.flat) = 4
    /\ lookup.found # NoCommand
    /\ lookup.found.type = "category"
    /\ \E p \in PathsOf(lookup.tree) :
          /\ Len(p) = 2
          /\ p[2] = 2
          /\ NodeAt(lookup.tree, p) = lookup.found

\* C31: a result that the search hook serves from its cache was computed
\* for the items the hook is given now, never for items of an earlier
\* render.
C31_CacheFollowsItems ==
    \A r \in req : (r.entry = "useSearch" /\ r.hit) => r.source = r.items

\* C32: the cache of the search hook never holds more than 50 entries; an
\* insertion into a cache of 50 entries evicts the entry inserted earliest,
\* and a hit leaves the cache and its order as they were.
C32_CacheBounded ==
    [][/\ Len(cacheRef') <= CacheLimit
       /\ (cacheRef' # cacheRef /\ Len(cacheRef) = CacheLimit) =>
             /\ Len(cacheRef') = CacheLimit
             /\ SubSeq(cacheRef', 1, CacheLimit - 1) = Tail(cacheRef)
       /\ (\E r \in req' : r.hit) => cacheRef' = cacheRef
      ]_vars

\* The places of the items that carry a string, and the strings of a list
\* that the query matches.
OwnersOf(items, string) ==
    {i \in DOMAIN items : string \in StringsOf(items[i])}

MatchingStrings(items, query) ==
    {x \in UNION {StringsOf(items[i]) : i \in DOMAIN items} :
        fuseScore(x, query) # NoMatch}

FirstOwner(items, string) ==
    CHOOSE i \in OwnersOf(items, string) :
        \A j \in OwnersOf(items, string) : i <= j

\* C33: in a fuzzy ranking no item comes twice, an item is in the result
\* only through a matching string of which it is the first owner in the
\* input, and when the limit leaves room for all, the first owner of every
\* matching string is in the result.
C33_FirstOwnerWins ==
    rank.query # "" =>
        LET items == rank.items
            matching == MatchingStrings(items, rank.query)
        IN  /\ \A i, j \in DOMAIN rank.result :
                  rank.result[i] = rank.result[j] => i = j
            /\ \A k \in DOMAIN rank.result :
                  \E x \in matching :
                     items[FirstOwner(items, x)].id = rank.result[k]
            /\ rank.maxResults >= Len(items) =>
                  \A x \in matching :
                     \E k \in DOMAIN rank.result :
                        rank.result[k] = items[FirstOwner(items, x)].id

\* The size the hook uses for row index is a measurement taken while another
\* row list was in the document.
StaleAt(v, index) ==
    /\ v.config.dynamicSizing
    /\ shouldVirtualize(v.items, v.config)
    /\ index + 1 \in DOMAIN v.items
    /\ v.items[index + 1].height = 0
    /\ index \in DOMAIN v.measuredHeights
    /\ estimateSize(v, index) = v.measuredHeights[index]
    /\ v.measuredFor[index] # v.items

\* C34: with dynamic sizing on, the size the hook uses for a row is never a
\* height that was measured at that index while a different row list was
\* rendered: neither in the render that receives the new list, nor after its
\* effects, nor after a callback of the observer of the old list.
C34_MeasurementsFollowRows ==
    \A index \in 0..(Len(virtualList.items) - 1) : ~StaleAt(virtualList, index)

\* The same, only once the effects of the last render have run.
C34_AfterEffects ==
    virtualList.effects = "done" =>
        \A index \in 0..(Len(virtualList.items) - 1) : ~StaleAt(virtualList, index)

\* The keys of a height cache.
KeysOf(cache) == {cache[k].cacheKey : k \in DOMAIN cache}

\* The entries of the cache before a step that are gone after it.
Evicted == {k \in DOMAIN heightCache.cache :
               heightCache.cache[k].cacheKey \notin KeysOf(heightCache'.cache)}

\* C35: the height cache never holds more than maxSize entries, and an
\* insertion that finds it full evicts exactly one entry, one whose last
\* access is the oldest.
C35_HeightCacheBounded ==
    [][/\ Len(heightCache'.cache) <= maxSize
       /\ (/\ Len(heightCache.cache) >= maxSize
           /\ KeysOf(heightCache'.cache) \ KeysOf(heightCache.cache) # {})
          => /\ Cardinality(Evicted) = 1
             /\ \A k \in Evicted, j \in DOMAIN heightCache.cache :
                   heightCache.cache[k].lastAccessed
                      <= heightCache.cache[j].lastAccessed
      ]_vars

\* The same without the bound and for the insertions that evict at all.
C35_EvictionTakesOldest ==
    [][Evicted # {}
          => /\ Len(heightCache.cache) >= maxSize
             /\ Cardinality(Evicted) = 1
             /\ \A k \in Evicted, j \in DOMAIN heightCache.cache :
                   heightCache.cache[k].lastAccessed
                      <= heightCache.cache[j].lastAccessed
      ]_vars

\* C36: an estimator returns, for a row without an explicit height, the
\* height its own configuration gives the row, whatever other estimators
\* have estimated before for the same row id and index.
C36_EstimatorsAreIndependent ==
    (heightCache.call.op = "estimateHeight" /\ heightCache.call.item.height = 0)
        => heightCache.call.result
              = calculatedHeight(heightCache.call.config, heightCache.call.item)

\* C37: through selectCommand, goBack, query edits and Escape, in every
\* interleaving, history is empty exactly in a root view; the bottom of a
\* history is a root view; and goBack in a view other than root succeeds.
C37_HistoryEmptyIffRoot ==
    /\ (state.history = <<>>) <=> (state.view.type = "root")
    /\ state.history # <<>> => state.history[1].type = "root"
    /\ (LastOp = "goBack" /\ log[1].pre.view.type # "root") => log[1].ret = TRUE

\* goBack has left a portal that was reached through a category, while
\* another selectCommand call was still waiting for its save.
C37_Witness ==
    /\ LastOp = "goBack"
    /\ log[1].pre.view.type = "portal"
    /\ Len(log[1].pre.history) = 2
    /\ log[1].ret = TRUE
    /\ state.view.type = "category"
    /\ \E i \in 1..Len(pending) : pending[i].fn = "selectCommand"

\* The step is a refresh of the items that wrote the store.
Refreshed ==
    /\ log' # <<>>
    /\ log'[1].op = "setState"
    /\ "items" \in DOMAIN log'[1].arg
    /\ log'[1].pre = state
    /\ log'[1].post = state'

C39_RowsAreCommands ==
    /\ "items" \in DOMAIN state =>
          \A i \in DOMAIN state.items :
             findCommandById(state.items[i].id, commands) # NoCommand
    /\ \A i \in DOMAIN kbd.selected :
          findCommandById(kbd.selected[i], commands) # NoCommand

\* The same for the ids the activate key hands to selectCommand only.
C39_ActivateFindsCommand ==
    \A i \in DOMAIN kbd.selected :
       findCommandById(kbd.selected[i], commands) # NoCommand

\* The step is a notification pass: the head of the queue is the microtask
\* of notifySubscribers and the task has ended.
PassRuns ==
    /\ task = "idle"
    /\ microtasks # <<>>
    /\ Head(microtasks).kind = "notify"

\* C40: a callback whose unsubscribe function has been called is not invoked
\* by any later pass, one queued before the call included; and a pass invokes
\* every callback subscribed when it runs, one subscribed after the setState
\* that queued it included.
C40_PassSeesLiveSubscribers ==
    [][/\ \A c \in timing.unsubscribed : calls'[c] <= calls[c]
       /\ PassRuns =>
             \A c \in Callbacks :
                c \in Range(CallbacksOf(subscribers)) => calls'[c] = calls[c] + 1
      ]_vars

\* A pass has skipped a callback that was unsubscribed while the pass was
\* queued and has invoked one that was subscribed while it was queued.
C40_Witness ==
    \E c \in timing.early, d \in timing.late :
       /\ pass.invoked = <<d>>
       /\ calls[c] = 0
       /\ calls[d] = 1

====
